---- MODULE Spec2Model ----
(***************************************************************************)
(* A model of the keyword processing pipeline of KWORD:                    *)
(*   - the Sanitizer          (src/src/keyword_scoring_free_only.py)       *)
(*   - the ConfigResolver     (src/src/keyword_scoring_free_only.py and    *)
(*                             the config reader of tools/compute_scores)  *)
(*   - the CompetitionAggregator (src/tools/fetch_competition_counts.py)   *)
(*   - the ScoreComputer      (src/tools/compute_scores.py)                *)
(* Each component has its own variables, initial condition, actions and    *)
(* specification (SanSpec, CfgSpec, FetchSpec, ScoreSpec); a component's   *)
(* actions leave the other components' variables unchanged.                *)
(*                                                                         *)
(* Text is a sequence of one-character strings.  Numbers are exact:        *)
(* a weight or a score is an integer or a fraction [n, d] of integers,     *)
(* NaN and Inf are distinguished values, and a missing value is None.      *)
(***************************************************************************)
EXTENDS Integers, Sequences, FiniteSets, TLC

VARIABLES
    \* ---- Sanitizer: one call of sanitize_text and a second call on its output
    text,        \* the text argument
    words,       \* the words argument (a list of texts)
    symbols,     \* the symbols argument (a list of one-character strings)
    order,       \* the order _sorted_desc_by_len gives the words in this process
    sanPc,       \* "start", "once" (sanitize_text returned), "twice"
    detail,      \* the detail record of the first call
    clean2       \* the text returned by the second call

VARIABLES
    \* ---- ConfigResolver, weights: the 'config' sheet, the command line, and
    \* what parse_weights_from_config, apply_precedence (main program) and
    \* _read_excel_config (score computation) make of them
    sheet,          \* [present, kvHeader, kv]: the key/value block of the sheet
    cliW,           \* [W_intent, W_competition]: --W-intent / --W-competition
    weights_excel,  \* the pair parse_weights_from_config returned
    eff_weights,    \* the pair apply_precedence returned
    rd_weights,     \* the pair _read_excel_config returned
    wPc,            \* main program: "start", "parsed", "resolved"
    rdPc            \* score computation: "start", "read", "raised"

VARIABLES
    \* ---- ConfigResolver, intent tokens
    tokSheet,       \* [present, header, enCol, rows]: the token block of the sheet
    cliTokens,      \* [given, parts]: the --tokens string, split at , and ;
    tokens_excel,   \* the dict parse_tokens_from_config returned
    eff_tokens,     \* the dict apply_precedence returned
    rd_tokens,      \* the list of (token, weight) _read_excel_config returned
    tPc,            \* main program: "start", "parsed", "resolved"
    rtPc            \* score computation: "start", "read", "raised"

VARIABLES
    \* ---- CompetitionAggregator: runs of fetch_and_append on one input table
    \* and one output file
    inTable,     \* the rows of the input CSV: <<seed cell, keyword cell>>
    site_mode,   \* "both", "coupang" or "naver"
    outFile,     \* the output CSV on disk: [exists, lines]; a line is a header
                 \* line or a data row, [kind, cols, cells]
    outBuf,      \* lines written to the open file and not yet flushed
    errLog,      \* the entries of logs/errors.csv
    exist_keys,  \* the processed keys read before the run
    header,      \* the header the run writes rows under
    to_process,  \* the (seed, keyword) pairs of the input
    idx,         \* position of the loop in to_process (1-based)
    fPc,         \* "idle", "loop", "written", "done", "interrupted"
    runNo,       \* number of runs started
    prevEnd,     \* how the run before this one ended: "none", "done", "interrupted"
    appended,    \* the keys of the rows this run has written, in order
    prevAppended, \* the keys of the rows the run before this one wrote
    skippedKeys, \* the keys this run has skipped, in order
    diskAtStart, \* the data rows on disk when this run started
    fileAtStart  \* the output file as it was when this run started

VARIABLES
    \* ---- Scorer: one run of compute_scores
    config,      \* the 'config' sheet: [sheet, toks]
    baseIn,      \* the rows of the base CSV: [seed, keyword]
    compIn,      \* the competition CSV: [present, rows]
    sc_weights,  \* (w_int, w_cmp) as _read_excel_config returns them
    sc_tokens,   \* the token list as _read_excel_config returns it
    merged_df,   \* the merged table, scored before it is deduplicated
    out_df,      \* the table written to the score CSV
    scPc         \* "start", "config", "merged", "emitted"

VARIABLES
    \* ---- ConfigResolver, prohibited lexicon (main(), Stage 1-4)
    rawBase,     \* the words and symbols of the prohibited-words JSON file
    rawExtra,    \* the word and symbol cells of the enabled config rows
    base_proh,   \* load_default_prohibited(...)
    extra_proh,  \* parse_prohibited_from_config(...)
    merged_proh, \* merge_prohibited(base_proh, extra_proh)
    merged_again, \* merge_prohibited(merged_proh, extra_proh)
    lexPc        \* "start", "loaded", "merged", "again"

VARIABLES
    \* ---- ExpansionCollector: one call of expand_for_seed
    seed_idx,       \* the seed's row index
    seed_orig,      \* the seed keyword as given
    seed_sanitized, \* sanitize_text(seed_orig, ...)
    max_each,       \* --expand
    proh_order,     \* the prohibited words, in the order sanitize_text removes them
    proh_symbols,   \* the prohibited symbols
    leaves,         \* the string leaves of the suggestion service's reply
    suggestions,    \* the list fetch_naver_suggest returned
    out_rows,       \* the records collected so far
    seen_rel,       \* the set of sanitized suggestions already kept
    rank,           \* the rank counter
    sgI,            \* position of the loop in suggestions (1-based)
    exPc            \* "off", "start", "loop", "returned"

VARIABLES
    \* ---- ExpansionCollector: one run of expand_all over the seed rows
    df_sanitized,   \* the sanitized seeds, one per row
    retries,        \* --retries
    sleep_sec,      \* --sleep, in tenths of a second
    seedNo,         \* the row expand_all is at (1-based)
    attempts,       \* requests fetch_naver_suggest has sent for this seed
    last_err,       \* "none", "http", "exc", "badjson"
    fetched,        \* per expanded seed: what fetch_naver_suggest returned
    attemptLog,     \* per expanded seed: [seed, n, failed]: requests sent, all failed?
    all_rows,       \* the rows expand_all has collected
    warnings,       \* the seeds a warning was printed for
    net_trace,      \* requests sent and delays slept, in order
    eaPc            \* "off", "seed", "attempt", "pace", "done", "raised"

VARIABLES
    \* ---- Competition stage of the main program: one run of collect_competition
    expanded_kws,   \* the related_sanitized cells of the expanded table
    cc_mode,        \* site_mode: "both", "coupang" or "naver"
    cc_retries,     \* retries
    cc_sleep,       \* sleep_sec, in tenths of a second
    kwNo,           \* the row the loop is at (1-based)
    cc_attempts,    \* requests the running count lookup has sent
    cpn,            \* the Coupang count of the row, NoCount for None
    nav,            \* the Naver count of the row, NoCount for None
    comp_rows,      \* the rows collected: [kw, cpn, nav]
    cc_trace,       \* requests sent and delays slept, in order
    ccPc            \* "off", "kw", "coupang", "naver", "row", "done"

VARIABLES
    \* ---- Column inference of the score computation and of the aggregator
    expandedTbl,    \* the expanded CSV: [exists, cols, rows]
    sanitizedTbl,   \* the sanitized CSV: [exists, cols, rows]
    sc_base,        \* what _load_base of the score computation gave
    ft_input,       \* what _iter_input_rows of the aggregator gave
    colPc           \* "off", "start", "scored", "fetched"

VARIABLES
    \* ---- Seed canonicalization (compute_scores) and its check (verify_dtypes)
    seed_raw,       \* the text of a seed cell, str(x)
    seed_once,      \* _canon_seed_str of it
    seed_twice,     \* _canon_seed_str of that
    seed_flag,      \* whether verify_dtypes counts the output as "bad"
    cnPc            \* "off", "start", "once", "twice", "verified"

sanVars == <<text, words, symbols, order, sanPc, detail, clean2>>

canVars == <<seed_raw, seed_once, seed_twice, seed_flag, cnPc>>

expVars == <<seed_idx, seed_orig, seed_sanitized, max_each, proh_order, proh_symbols,
             leaves, suggestions, out_rows, seen_rel, rank, sgI, exPc>>

allVars == <<df_sanitized, retries, sleep_sec, seedNo, attempts, last_err, fetched,
             attemptLog, all_rows, warnings, net_trace, eaPc>>

ccVars == <<expanded_kws, cc_mode, cc_retries, cc_sleep, kwNo, cc_attempts, cpn, nav,
            comp_rows, cc_trace, ccPc>>

colVars == <<expandedTbl, sanitizedTbl, sc_base, ft_input, colPc>>

lexVars == <<rawBase, rawExtra, base_proh, extra_proh, merged_proh, merged_again, lexPc>>

scoreVars == <<config, baseIn, compIn, sc_weights, sc_tokens, merged_df, out_df, scPc>>

fetchVars == <<inTable, site_mode, outFile, outBuf, errLog, exist_keys, header,
               to_process, idx, fPc, runNo, prevEnd, appended, prevAppended,
               skippedKeys, diskAtStart, fileAtStart>>

tokVars == <<tokSheet, cliTokens, tokens_excel, eff_tokens, rd_tokens, tPc, rtPc>>

wgtVars == <<sheet, cliW, weights_excel, eff_weights, rd_weights, wPc, rdPc>>

vars == <<sanVars, wgtVars, tokVars, fetchVars, scoreVars, lexVars, expVars, allVars, ccVars, colVars, canVars>>

None == "None"

(***************************************************************************)
(* Bounds of the model.                                                    *)
(***************************************************************************)
MaxLen == 4        \* longest text given to sanitize_text
MaxWords == 2      \* longest list of prohibited words
MaxKvRows == 2     \* most rows of the key/value block of the config sheet
MaxTokRows == 2    \* most rows of the token block of the config sheet
MaxCliParts == 2   \* most parts of the --tokens string
MaxInput == 2      \* most rows of the aggregator's input table
MaxRuns == 2       \* runs of fetch_and_append on the same output file
MaxBase == 2       \* most rows of the scorer's base table
MaxComp == 2       \* most rows of the scorer's competition table
MaxLex == 2        \* most entries of a list of the prohibited lexicon
MaxSugg == 3       \* most string leaves in a reply of the suggestion service
MaxEach == 2       \* largest --expand
MaxSeeds == 2      \* most seed rows given to expand_all
MaxRetries == 2    \* largest --retries
MaxCols == 2       \* most columns of a base table with drawn names
MaxKws == 2        \* most rows of the expanded table given to collect_competition
MaxSeedLen == 4    \* longest seed text given to _canon_seed_str

(***************************************************************************)
(* Generic helpers on sequences.                                           *)
(***************************************************************************)
Range(s) == {s[i] : i \in DOMAIN s}

SeqsUpTo(S, n) == UNION {[1..k -> S] : k \in 0..n}

IsInjective(s) == \A i, j \in DOMAIN s : s[i] = s[j] => i = j

Drop(s, n) == SubSeq(s, n + 1, Len(s))

Take(s, n) == SubSeq(s, 1, n)

(***************************************************************************)
(* Characters.  " " is the whitespace character, "," stands for the        *)
(* punctuation class [,./~\-_:;] of _collapse_spaces, "!" is a character   *)
(* that the symbol list may prohibit, "A" is the upper case of "a".        *)
(***************************************************************************)
Chars == {"a", "A", "b", " ", ",", "!"}

IsSpace(c) == c = " "

IsPunct(c) == c = ","

\* str.lower() / re.IGNORECASE on one character
LowerChar(c) == IF c = "A" THEN "a" ELSE c

Lower(s) == [i \in DOMAIN s |-> LowerChar(s[i])]

\* str.strip()
RECURSIVE LStrip(_)
LStrip(s) == IF s # <<>> /\ IsSpace(Head(s)) THEN LStrip(Tail(s)) ELSE s

RECURSIVE RStrip(_)
RStrip(s) ==
    IF s # <<>> /\ IsSpace(s[Len(s)]) THEN RStrip(Take(s, Len(s) - 1)) ELSE s

Strip(s) == RStrip(LStrip(s))

\* _cell_str on a str: str(v).strip()
_cell_str(v) == Strip(v)

\* the `in` operator of str: w occurs in s as a contiguous substring
Contains(s, w) ==
    \E i \in 0..(Len(s) - Len(w)) : SubSeq(s, i + 1, i + Len(w)) = w

\* case-insensitive occurrence, as a pattern compiled with re.IGNORECASE finds it
ContainsCI(s, w) == Contains(Lower(s), Lower(w))

(***************************************************************************)
(* _collapse_spaces: three substitutions and a strip.                      *)
(***************************************************************************)
\* re.sub(r"\s+", " ", s)
RECURSIVE CollapseRuns(_)
CollapseRuns(s) ==
    IF s = <<>> THEN <<>>
    ELSE IF IsSpace(Head(s))
         THEN <<" ">> \o CollapseRuns(LStrip(s))
         ELSE <<Head(s)>> \o CollapseRuns(Tail(s))

\* re.sub(r"\s+([,./~\-_:;])", r"\1", s): a run of whitespace that is
\* directly followed by a punctuation character is removed
RECURSIVE TightenBefore(_)
TightenBefore(s) ==
    IF s = <<>> THEN <<>>
    ELSE IF IsSpace(Head(s))
         THEN LET rest == LStrip(s)
                  run == Take(s, Len(s) - Len(rest))
              IN  IF rest # <<>> /\ IsPunct(Head(rest))
                  THEN <<Head(rest)>> \o TightenBefore(Tail(rest))
                  ELSE run \o TightenBefore(rest)
         ELSE <<Head(s)>> \o TightenBefore(Tail(s))

\* re.sub(r"([,./~\-_:;])\s+", r"\1 ", s): a run of whitespace that directly
\* follows a punctuation character becomes one space
RECURSIVE SpaceAfter(_)
SpaceAfter(s) ==
    IF s = <<>> THEN <<>>
    ELSE IF IsPunct(Head(s)) /\ Len(s) > 1 /\ IsSpace(s[2])
         THEN <<Head(s), " ">> \o SpaceAfter(LStrip(Tail(s)))
         ELSE <<Head(s)>> \o SpaceAfter(Tail(s))

_collapse_spaces(s) == Strip(SpaceAfter(TightenBefore(CollapseRuns(s))))

(***************************************************************************)
(* _sorted_desc_by_len: the non-empty terms, without repeats, longest      *)
(* first.  The terms are collected in a set before the (stable) sort, so   *)
(* the order among terms of equal length is the set's iteration order:     *)
(* the operator gives every order the call can return.                     *)
(***************************************************************************)
_sorted_desc_by_len(terms) ==
    LET S == {t \in Range(terms) : t # <<>>}
    IN  {o \in [1..Cardinality(S) -> S] :
            /\ IsInjective(o)
            /\ \A i, j \in DOMAIN o : i < j => Len(o[i]) >= Len(o[j])}

(***************************************************************************)
(* sanitize_text.                                                          *)
(***************************************************************************)
\* pat.subn("", cur) with pat = re.compile(re.escape(w), re.IGNORECASE):
\* every leftmost non-overlapping occurrence of w is removed in one scan
RECURSIVE RemoveWord(_, _)
RemoveWord(cur, w) ==
    IF Len(cur) < Len(w) THEN cur
    ELSE IF Lower(Take(cur, Len(w))) = Lower(w)
         THEN RemoveWord(Drop(cur, Len(w)), w)
         ELSE <<Head(cur)>> \o RemoveWord(Tail(cur), w)

\* the loop over the sorted words: <<text, removed_words>>
RECURSIVE RemoveWords(_, _, _)
RemoveWords(cur, ws, removed) ==
    IF ws = <<>> THEN <<cur, removed>>
    ELSE LET nxt == RemoveWord(cur, Head(ws))
         IN  RemoveWords(nxt, Tail(ws),
                         IF nxt # cur THEN Append(removed, Head(ws)) ELSE removed)

\* the symbols of the list that occur in the text, in list order
PresentSyms(cur, syms) == SelectSeq(syms, LAMBDA s : s \in Range(cur))

\* re.subn("[" + present symbols + "]", "", cur)
RemoveSyms(cur, present) == SelectSeq(cur, LAMBDA c : c \notin Range(present))

\* sanitize_text(text, words, symbols) with the words in the order ord;
\* the result is the detail record, whose "sanitized" field is the text returned
sanitize_text(txt, ord, syms) ==
    LET original == _cell_str(txt)
        wr == RemoveWords(original, ord, <<>>)
        present == PresentSyms(wr[1], syms)
        cur == _collapse_spaces(RemoveSyms(wr[1], present))
    IN  [original |-> original, sanitized |-> cur,
         removed_words |-> wr[2], removed_symbols |-> present,
         changed |-> original # cur]

(***************************************************************************)
(* Numbers.  A float is [k, n, d]: k = "fin" for the fraction n/d (d > 0,  *)
(* in lowest terms), "nan" or "inf".  A cell or an option that holds no    *)
(* number has k = "none" (None, a blank cell) or k = "text" (a cell whose  *)
(* text float() cannot parse).                                             *)
(***************************************************************************)
RECURSIVE GCD(_, _)
GCD(a, b) == IF b = 0 THEN a ELSE GCD(b, a % b)

Abs(n) == IF n < 0 THEN -n ELSE n

Q(n, d) ==
    LET g == GCD(Abs(n), Abs(d))
        sg == IF d < 0 THEN -1 ELSE 1
    IN  [k |-> "fin", n |-> (sg * n) \div g, d |-> (sg * d) \div g]

Fin(n) == Q(n, 1)

NaN == [k |-> "nan", n |-> 0, d |-> 1]

Inf == [k |-> "inf", n |-> 0, d |-> 1]

NoVal == [k |-> "none", n |-> 0, d |-> 1]

TextCell == [k |-> "text", n |-> 0, d |-> 1]

IsNum(x) == x.k \in {"fin", "nan", "inf"}

\* math.isfinite
IsFinite(x) == x.k = "fin"

\* x + y on floats
Add(x, y) ==
    IF x.k = "nan" \/ y.k = "nan" THEN NaN
    ELSE IF x.k = "inf" \/ y.k = "inf" THEN Inf
    ELSE Q(x.n * y.d + y.n * x.d, x.d * y.d)

\* x * y on floats (0 * inf is nan)
Mul(x, y) ==
    IF x.k = "nan" \/ y.k = "nan" THEN NaN
    ELSE IF x.k = "inf" \/ y.k = "inf"
         THEN IF (x.k = "fin" /\ x.n = 0) \/ (y.k = "fin" /\ y.n = 0)
              THEN NaN ELSE Inf
         ELSE Q(x.n * y.n, x.d * y.d)

Neg(x) == IF x.k = "fin" THEN Q(-x.n, x.d) ELSE x

\* x / y on floats, for a divisor that is not zero and not negative
Div(x, y) ==
    IF x.k = "nan" \/ y.k = "nan" THEN NaN
    ELSE IF y.k = "inf" THEN (IF x.k = "inf" THEN NaN ELSE Fin(0))
    ELSE IF x.k = "inf" THEN Inf
    ELSE Q(x.n * y.d, x.d * y.n)

\* x <= 0, x < y, x <= y on floats: every comparison with nan is false
LeZero(x) == x.k = "fin" /\ x.n <= 0

Less(x, y) ==
    /\ x.k # "nan" /\ y.k # "nan"
    /\ \/ x.k = "fin" /\ y.k = "inf"
       \/ x.k = "fin" /\ y.k = "fin" /\ x.n * y.d < y.n * x.d

Leq(x, y) == x.k # "nan" /\ y.k # "nan" /\ (x = y \/ Less(x, y))

\* `x or 0.0`
OrZero(x) == IF x.k = "none" \/ (x.k = "fin" /\ x.n = 0) THEN Fin(0) ELSE x

(***************************************************************************)
(* ConfigResolver, weights.                                                *)
(***************************************************************************)
\* DEFAULT_WEIGHTS = {"W_intent": 0.55, "W_competition": 0.45}
DEFAULT_WEIGHTS == [W_intent |-> Q(55, 100), W_competition |-> Q(45, 100)]

\* _safe_float(s, default): float(s) raised to 0 from below, the default
\* when float() raises; max(nan, 0.0) is nan
_safe_float(c, default) ==
    IF ~IsNum(c) THEN default
    ELSE IF c.k = "fin" /\ c.n < 0 THEN Fin(0)
    ELSE c

DefaultFor(key) ==
    IF key = "W_intent" THEN DEFAULT_WEIGHTS.W_intent
    ELSE IF key = "W_competition" THEN DEFAULT_WEIGHTS.W_competition
    ELSE Fin(0)

\* the while loop of _parse_weights_block over the rows below the header:
\* it stops at the first row whose key and value are both blank, skips a row
\* with a blank key, and a later row of a key replaces an earlier one;
\* `merged` starts as a copy of DEFAULT_WEIGHTS
RECURSIVE ScanWeights(_, _)
ScanWeights(rows, merged) ==
    IF rows = <<>> THEN merged
    ELSE LET r == Head(rows)
         IN  IF r.key = "" /\ r.val.k = "none" THEN merged
             ELSE IF r.key = "" THEN ScanWeights(Tail(rows), merged)
             ELSE ScanWeights(Tail(rows),
                    IF r.key \in DOMAIN merged
                    THEN [merged EXCEPT ![r.key] = _safe_float(r.val, DefaultFor(r.key))]
                    ELSE merged)

\* the tail shared by _parse_weights_block and apply_precedence: a total that
\* is not finite or not positive gives the default pair, and the pair is
\* divided by its total
RenormMutNoDivide(w_intent, w_comp) ==
    LET total == Add(OrZero(w_intent), OrZero(w_comp))
    IN  IF ~IsFinite(total) \/ LeZero(total)
        THEN DEFAULT_WEIGHTS
        ELSE [W_intent |-> w_intent, W_competition |-> w_comp]

RenormMutNoFallback(w_intent, w_comp) ==
    LET total == Add(OrZero(w_intent), OrZero(w_comp))
    IN  IF ~IsFinite(total) \/ LeZero(total)
        THEN [W_intent |-> OrZero(w_intent), W_competition |-> OrZero(w_comp)]
        ELSE [W_intent |-> Div(w_intent, total),
              W_competition |-> Div(w_comp, total)]

Renorm(w_intent, w_comp) ==
    LET total == Add(OrZero(w_intent), OrZero(w_comp))
    IN  IF ~IsFinite(total) \/ LeZero(total)
        THEN LET t == Add(DEFAULT_WEIGHTS.W_intent, DEFAULT_WEIGHTS.W_competition)
             IN  [W_intent |-> Div(DEFAULT_WEIGHTS.W_intent, t),
                  W_competition |-> Div(DEFAULT_WEIGHTS.W_competition, t)]
        ELSE [W_intent |-> Div(w_intent, total),
              W_competition |-> Div(w_comp, total)]

\* _parse_weights_block(conf_df); sh.kvHeader says whether
\* _find_header_position found the cells "key", "value"
_parse_weights_block(sh) ==
    IF ~sh.kvHeader THEN DEFAULT_WEIGHTS
    ELSE LET merged == ScanWeights(sh.kv, DEFAULT_WEIGHTS)
         IN  Renorm(merged.W_intent, merged.W_competition)

\* parse_weights_from_config(xls_path): a missing workbook, or a workbook
\* without a readable 'config' sheet, gives the defaults
parse_weights_from_config(sh) ==
    IF ~sh.present THEN DEFAULT_WEIGHTS ELSE _parse_weights_block(sh)

\* apply_precedence, weights: per axis the command-line value unless it is
\* None, else the entry of weights_excel
PickMutExcelFirst(cli, excel) == excel

Pick(cli, excel) == IF cli.k # "none" THEN cli ELSE excel

apply_precedence_weights(wx, args) ==
    Renorm(Pick(args.W_intent, wx.W_intent),
           Pick(args.W_competition, wx.W_competition))

\* _read_excel_config, weights, on a sheet whose first row names the columns
\* key and value.  No column is named w_intent or w_competition, so the
\* column-based detection finds nothing; the key/value table is walked over
\* every row whose key is not blank (no stop at a blank row), keys are
\* compared in lower case, a value that is not a number is skipped and a
\* later row replaces an earlier one.  The literal scan that follows looks at
\* the same key cells and their right neighbours, so it finds no number the
\* table walk did not find.
RECURSIVE KvWalk(_, _)
KvWalk(rows, acc) ==
    IF rows = <<>> THEN acc
    ELSE LET r == Head(rows)
             v == IF r.val.k \in {"fin", "inf"} THEN r.val ELSE NoVal
         IN  KvWalk(Tail(rows),
                IF r.key = "" \/ v.k = "none" THEN acc
                ELSE IF r.key = "W_intent" THEN [acc EXCEPT !.w_int = v]
                ELSE IF r.key = "W_competition" THEN [acc EXCEPT !.w_cmp = v]
                ELSE acc)

\* lines 182-189: defaults and renormalisation
ReadRenormMutNoDivide(w_int, w_cmp) ==
    IF w_int.k = "none" \/ w_cmp.k = "none"
    THEN DEFAULT_WEIGHTS
    ELSE LET sm == Add(OrZero(w_int), OrZero(w_cmp))
         IN  IF LeZero(sm) THEN DEFAULT_WEIGHTS
             ELSE [W_intent |-> w_int, W_competition |-> w_cmp]

ReadRenorm(w_int, w_cmp) ==
    LET a == IF w_int.k = "none" \/ w_cmp.k = "none"
             THEN DEFAULT_WEIGHTS.W_intent ELSE w_int
        b == IF w_int.k = "none" \/ w_cmp.k = "none"
             THEN DEFAULT_WEIGHTS.W_competition ELSE w_cmp
        sm == Add(OrZero(a), OrZero(b))
    IN  IF LeZero(sm) THEN DEFAULT_WEIGHTS
        ELSE [W_intent |-> Div(a, sm), W_competition |-> Div(b, sm)]

_read_excel_config_weights(sh) ==
    LET found == IF sh.kvHeader
                 THEN KvWalk(sh.kv, [w_int |-> NoVal, w_cmp |-> NoVal])
                 ELSE [w_int |-> NoVal, w_cmp |-> NoVal]
    IN  ReadRenorm(found.w_int, found.w_cmp)

(***************************************************************************)
(* The weight resolver's specification.                                    *)
(***************************************************************************)
KvKeys == {"W_intent", "W_competition", ""}

\* a value cell: blank, text that is no number, -1, 0, 1, 3, inf
CellVals == {NoVal, TextCell, Fin(-1), Fin(0), Fin(1), Fin(3), Inf}

\* a command-line weight: absent, -1, 0, 1, 3, inf
CliVals == {NoVal, Fin(-1), Fin(0), Fin(1), Fin(3), Inf}

KvRows == [key : KvKeys, val : CellVals]

NoSheet == [present |-> FALSE, kvHeader |-> FALSE, kv |-> <<>>]

Sheets ==
    {NoSheet, [present |-> TRUE, kvHeader |-> FALSE, kv |-> <<>>]}
    \cup {[present |-> TRUE, kvHeader |-> TRUE, kv |-> rows] :
            rows \in SeqsUpTo(KvRows, MaxKvRows)}

NoPair == [W_intent |-> NoVal, W_competition |-> NoVal]

WgtIdle ==
    /\ sheet = NoSheet
    /\ cliW = NoPair
    /\ weights_excel = NoPair
    /\ eff_weights = NoPair
    /\ rd_weights = NoPair
    /\ wPc = "idle"
    /\ rdPc = "idle"

WgtInit ==
    /\ sheet \in Sheets
    /\ cliW \in [W_intent : CliVals, W_competition : CliVals]
    /\ weights_excel = NoPair
    /\ eff_weights = NoPair
    /\ rd_weights = NoPair
    /\ wPc = "start"
    /\ rdPc = "start"

\* main(): Stage 1-2
ParseWeights ==
    /\ wPc = "start"
    /\ weights_excel' = parse_weights_from_config(sheet)
    /\ wPc' = "parsed"
    /\ UNCHANGED <<sheet, cliW, eff_weights, rd_weights, rdPc>>
    /\ UNCHANGED <<sanVars, tokVars, fetchVars, scoreVars, lexVars, expVars, allVars, ccVars, colVars, canVars>>

\* main(): Stage 1-5
ApplyPrecedence ==
    /\ wPc = "parsed"
    /\ eff_weights' = apply_precedence_weights(weights_excel, cliW)
    /\ wPc' = "resolved"
    /\ UNCHANGED <<sheet, cliW, weights_excel, rd_weights, rdPc>>
    /\ UNCHANGED <<sanVars, tokVars, fetchVars, scoreVars, lexVars, expVars, allVars, ccVars, colVars, canVars>>

\* compute_scores(): the config read; pd.read_excel raises when the workbook
\* or its 'config' sheet is missing
ReadExcelConfig ==
    /\ rdPc = "start"
    /\ sheet.present
    /\ rd_weights' = _read_excel_config_weights(sheet)
    /\ rdPc' = "read"
    /\ UNCHANGED <<sheet, cliW, weights_excel, eff_weights, wPc>>
    /\ UNCHANGED <<sanVars, tokVars, fetchVars, scoreVars, lexVars, expVars, allVars, ccVars, colVars, canVars>>

ReadExcelConfigRaises ==
    /\ rdPc = "start"
    /\ ~sheet.present
    /\ rdPc' = "raised"
    /\ UNCHANGED <<sheet, cliW, weights_excel, eff_weights, rd_weights, wPc>>
    /\ UNCHANGED <<sanVars, tokVars, fetchVars, scoreVars, lexVars, expVars, allVars, ccVars, colVars, canVars>>

WgtNext ==
    \/ ParseWeights
    \/ ApplyPrecedence
    \/ ReadExcelConfig
    \/ ReadExcelConfigRaises


(***************************************************************************)
(* ConfigResolver, intent tokens.  A dict is a function from its keys to   *)
(* their values; the list of the score computation is a sequence of        *)
(* <<token, weight>> pairs.  Token texts are short names.                  *)
(***************************************************************************)
EmptyDict == <<>>

\* d[k] = v on a dict
DictSet(d, k, v) == (k :> v) @@ d

\* DEFAULT_TOKENS, every entry enabled, as the dict comprehension
\* {t["token"]: t["weight"] for t in DEFAULT_TOKENS if t.get("enabled", True)}
DEFAULT_TOKENS ==
    ("bigsize" :> Q(10, 10)) @@ ("imsanbu" :> Q(9, 10)) @@ ("hagaek" :> Q(7, 10))
    @@ ("homewear" :> Q(6, 10)) @@ ("knit" :> Q(5, 10)) @@ ("long" :> Q(5, 10))
    @@ ("hood" :> Q(4, 10)) @@ ("mantoman" :> Q(4, 10)) @@ ("polar" :> Q(4, 10))
    @@ ("gimo" :> Q(3, 10))

\* _to_bool / _truthy on the text of a cell
_to_bool(t) == t \in {"1", "true", "t", "yes", "y", "on"}

\* weight > 0.0 on floats
Positive(x) == x.k = "inf" \/ (x.k = "fin" /\ x.n > 0)

\* the while loop of _parse_tokens_block: it stops at the first fully blank
\* row, skips a row with a blank token, and keeps a row that is enabled (a
\* blank enabled cell counts as true) and whose weight is > 0
RowKeptMutIgnoreEnabled(r) ==
    /\ r.tok # ""
    /\ Positive(_safe_float(r.w, Fin(0)))

RowKept(r) ==
    /\ r.tok # ""
    /\ (IF r.en # "" THEN _to_bool(r.en) ELSE TRUE)
    /\ Positive(_safe_float(r.w, Fin(0)))

RECURSIVE ScanTokens(_, _)
ScanTokens(rows, enabled_tokens) ==
    IF rows = <<>> THEN enabled_tokens
    ELSE LET r == Head(rows)
         IN  IF r.tok = "" /\ r.w.k = "none" /\ r.en = "" THEN enabled_tokens
             ELSE ScanTokens(Tail(rows),
                    IF RowKept(r)
                    THEN DictSet(enabled_tokens, r.tok, _safe_float(r.w, Fin(0)))
                    ELSE enabled_tokens)

\* _parse_tokens_block(conf_df); the header is the cell sequence
\* token, weight, enabled
_parse_tokens_block(sh) ==
    IF ~(sh.header /\ sh.enCol) THEN DEFAULT_TOKENS
    ELSE LET enabled_tokens == ScanTokens(sh.rows, EmptyDict)
         IN  IF enabled_tokens = EmptyDict THEN DEFAULT_TOKENS ELSE enabled_tokens

\* parse_tokens_from_config(xls_path)
parse_tokens_from_config(sh) ==
    IF ~sh.present THEN DEFAULT_TOKENS ELSE _parse_tokens_block(sh)

\* _parse_tokens_cli(cli_str): None and "" give {}; a part that is blank or
\* has no ":" is dropped; "tok:w" is kept when the token is not blank and
\* the weight parses and is > 0
RECURSIVE CliLoop(_, _)
CliLoop(parts, out) ==
    IF parts = <<>> THEN out
    ELSE LET pt == Head(parts)
         IN  CliLoop(Tail(parts),
                IF /\ pt.kind = "pair"
                   /\ pt.tok # ""
                   /\ Positive(_safe_float(pt.w, Fin(0)))
                THEN DictSet(out, pt.tok, _safe_float(pt.w, Fin(0)))
                ELSE out)

_parse_tokens_cli(cli) ==
    IF ~cli.given \/ cli.parts = <<>> THEN EmptyDict
    ELSE CliLoop(cli.parts, EmptyDict)

\* apply_precedence, tokens
apply_precedence_tokens(tx, cli) ==
    LET tokens_cli == _parse_tokens_cli(cli)
    IN  IF tokens_cli # EmptyDict THEN tokens_cli
        ELSE IF tx # EmptyDict THEN tx
        ELSE DEFAULT_TOKENS

\* _read_excel_config, tokens (lines 191-210): needs a token and a weight
\* column; rows with a blank token or weight are dropped; with an enabled
\* column only the rows whose enabled cell is truthy stay (a blank cell reads
\* as nan, which is not truthy); rows whose weight is no number are dropped;
\* every row left is appended, whatever the sign of its weight
ReadRowKept(sh, r) ==
    /\ r.tok # "" /\ r.w.k # "none"
    /\ sh.enCol => _to_bool(r.en)
    /\ r.w.k \in {"fin", "inf"}

_read_excel_config_tokens(sh) ==
    IF ~sh.header THEN <<>>
    ELSE LET kept == SelectSeq(sh.rows, LAMBDA r : ReadRowKept(sh, r))
         IN  [i \in DOMAIN kept |-> <<kept[i].tok, kept[i].w>>]

(***************************************************************************)
(* The token resolver's specification.                                     *)
(***************************************************************************)
\* the rows of the sheet's token block
TokRows ==
    [tok : {"t1", "t2"}, w : {NoVal, TextCell, Fin(-1), Fin(0), Fin(2)},
     en : {"", "true", "false"}]
    \cup {[tok |-> "", w |-> NoVal, en |-> ""], [tok |-> "", w |-> Fin(2), en |-> ""]}

\* the parts of the --tokens string: blank, without ":", or "tok:w"
CliParts ==
    {[kind |-> "blank", tok |-> "", w |-> NoVal],
     [kind |-> "nocolon", tok |-> "t1", w |-> NoVal]}
    \cup [kind : {"pair"}, tok : {"", "t1", "t3"}, w : {TextCell, Fin(0), Fin(3)}]

NoTokSheet == [present |-> FALSE, header |-> FALSE, enCol |-> FALSE, rows |-> <<>>]

TokSheets ==
    {NoTokSheet, [present |-> TRUE, header |-> FALSE, enCol |-> FALSE, rows |-> <<>>]}
    \cup {[present |-> TRUE, header |-> TRUE, enCol |-> e, rows |-> rows] :
            e \in BOOLEAN, rows \in SeqsUpTo(TokRows, MaxTokRows)}

NoCli == [given |-> FALSE, parts |-> <<>>]

TokIdle ==
    /\ tokSheet = NoTokSheet
    /\ cliTokens = NoCli
    /\ tokens_excel = EmptyDict
    /\ eff_tokens = EmptyDict
    /\ rd_tokens = <<>>
    /\ tPc = "idle"
    /\ rtPc = "idle"

TokInit ==
    /\ tokSheet \in TokSheets
    /\ cliTokens \in {NoCli} \cup
          {[given |-> TRUE, parts |-> ps] : ps \in SeqsUpTo(CliParts, MaxCliParts)}
    /\ tokens_excel = EmptyDict
    /\ eff_tokens = EmptyDict
    /\ rd_tokens = <<>>
    /\ tPc = "start"
    /\ rtPc = "start"

\* main(): Stage 1-3
ParseTokens ==
    /\ tPc = "start"
    /\ tokens_excel' = parse_tokens_from_config(tokSheet)
    /\ tPc' = "parsed"
    /\ UNCHANGED <<tokSheet, cliTokens, eff_tokens, rd_tokens, rtPc>>
    /\ UNCHANGED <<sanVars, wgtVars, fetchVars, scoreVars, lexVars, expVars, allVars, ccVars, colVars, canVars>>

\* main(): Stage 1-5
ApplyPrecedenceTokens ==
    /\ tPc = "parsed"
    /\ eff_tokens' = apply_precedence_tokens(tokens_excel, cliTokens)
    /\ tPc' = "resolved"
    /\ UNCHANGED <<tokSheet, cliTokens, tokens_excel, rd_tokens, rtPc>>
    /\ UNCHANGED <<sanVars, wgtVars, fetchVars, scoreVars, lexVars, expVars, allVars, ccVars, colVars, canVars>>

\* compute_scores(): the token table the scores are computed with
ReadExcelTokens ==
    /\ rtPc = "start"
    /\ tokSheet.present
    /\ rd_tokens' = _read_excel_config_tokens(tokSheet)
    /\ rtPc' = "read"
    /\ UNCHANGED <<tokSheet, cliTokens, tokens_excel, eff_tokens, tPc>>
    /\ UNCHANGED <<sanVars, wgtVars, fetchVars, scoreVars, lexVars, expVars, allVars, ccVars, colVars, canVars>>

ReadExcelTokensRaises ==
    /\ rtPc = "start"
    /\ ~tokSheet.present
    /\ rtPc' = "raised"
    /\ UNCHANGED <<tokSheet, cliTokens, tokens_excel, eff_tokens, rd_tokens, tPc>>
    /\ UNCHANGED <<sanVars, wgtVars, fetchVars, scoreVars, lexVars, expVars, allVars, ccVars, colVars, canVars>>

TokNext ==
    \/ ParseTokens
    \/ ApplyPrecedenceTokens
    \/ ReadExcelTokens
    \/ ReadExcelTokensRaises

(***************************************************************************)
(* CompetitionAggregator (tools/fetch_competition_counts.py).              *)
(* A cell is a string; a header is a sequence of column names; a data row  *)
(* holds one cell per column of the header it was written under.           *)
(***************************************************************************)
\* str.lower() on a column name
LowerName(c) ==
    IF c = "Seed" THEN "seed" ELSE IF c = "Keyword" THEN "keyword" ELSE c

\* str.strip() on a cell
StripCell(c) == IF c = "k1 " THEN "k1" ELSE IF c = " s1" THEN "s1" ELSE c

\* index of the first column whose lower-cased name is nm, 0 if none
FirstIndex(cols, nm) ==
    LET hit == {i \in DOMAIN cols : LowerName(cols[i]) = nm}
    IN  IF hit = {} THEN 0 ELSE CHOOSE i \in hit : \A j \in hit : i <= j

\* _detect_col(cols, candidates): the column matching the earliest candidate
\* exactly, case-insensitively; None if there is none
RECURSIVE _detect_col(_, _)
_detect_col(cols, candidates) ==
    IF candidates = <<>> THEN None
    ELSE IF FirstIndex(cols, LowerName(Head(candidates))) # 0
         THEN cols[FirstIndex(cols, LowerName(Head(candidates)))]
         ELSE _detect_col(cols, Tail(candidates))

\* row.get(col): the cell of a data row under a column name, "" when the
\* row has no such column (None or "" in the code, then `or ""`)
CellOf(line, col) ==
    LET hit == {i \in DOMAIN line.cols : line.cols[i] = col}
    IN  IF hit = {} THEN ""
        ELSE line.cells[CHOOSE i \in hit : \A j \in hit : i <= j]

HeaderLine(cols) == [kind |-> "header", cols |-> cols, cells |-> cols]

DataLines(lines) == SelectSeq(lines, LAMBDA l : l.kind = "row")

\* what csv.DictReader makes of the file: the first line gives the field
\* names, every later line is a row read under those names
ReadHeader(f) == IF f.exists /\ f.lines # <<>> THEN f.lines[1].cells ELSE <<>>

ReadRows(f) ==
    IF f.exists /\ f.lines # <<>>
    THEN [i \in 1..(Len(f.lines) - 1) |->
            [kind |-> "row", cols |-> ReadHeader(f), cells |-> f.lines[i + 1].cells]]
    ELSE <<>>

\* the key _read_existing_header_and_keys takes from a row
KeyOfRowMutNoStrip(hdr, row) ==
    LET seed_col == _detect_col(hdr, <<"seed">>)
        kw_col == _detect_col(hdr, <<"keyword", "term", "query">>)
    IN  << IF seed_col # None THEN CellOf(row, seed_col) ELSE "",
           IF kw_col # None THEN CellOf(row, kw_col)
           ELSE CellOf(row, "keyword") >>

KeyOfRow(hdr, row) ==
    LET seed_col == _detect_col(hdr, <<"seed">>)
        kw_col == _detect_col(hdr, <<"keyword", "term", "query">>)
        seed == IF seed_col # None THEN CellOf(row, seed_col) ELSE ""
        kw == IF kw_col # None THEN CellOf(row, kw_col) ELSE CellOf(row, "keyword")
    IN  <<StripCell(seed), StripCell(kw)>>

\* _read_existing_header_and_keys(outp): [header, keys]; the header is <<>>
\* (None) when the file does not exist
_read_existing_header_and_keys(f) ==
    [header |-> ReadHeader(f),
     keys |-> {KeyOfRow(ReadHeader(f), ReadRows(f)[i]) : i \in DOMAIN ReadRows(f)}]

\* _iter_input_rows: the (seed, keyword) pairs of the input rows whose
\* keyword is not blank, both stripped, in input order
_iter_input_rows(tbl) ==
    LET kept == SelectSeq(tbl, LAMBDA r : StripCell(r[2]) # "")
    IN  [i \in DOMAIN kept |-> <<StripCell(kept[i][1]), StripCell(kept[i][2])>>]

DefaultHeader ==
    <<"seed", "keyword", "comp_coupang", "comp_naver", "comp_combined", "scraped_at">>

\* _choose_output_header(existing)
_choose_output_header(existing) ==
    IF existing # <<>> THEN existing ELSE DefaultHeader

\* a count that was not found (None)
NoCount == -1

\* str(count), "" for None
CountCell(c) ==
    IF c = NoCount THEN "" ELSE IF c = 0 THEN "0" ELSE IF c = 2 THEN "2" ELSE "5"

\* f"{log1p(c or 0) + log1p(n or 0):.4f}" for the counts of the model, and
\* "" when both counts are None (the cell is then left as initialised)
CombinedCell(c, n) ==
    IF c = NoCount /\ n = NoCount THEN ""
    ELSE IF c = 2 /\ n = 5 THEN "2.8904"
    ELSE IF c = 2 THEN "1.0986"
    ELSE IF n = 5 THEN "1.7918"
    ELSE "0.0000"

\* _row_dict_for_header(header, seed, kw, comp_c, comp_n): the cells of the
\* row, one per column of the header; membership in the row is by the exact
\* column name, and the keyword goes to the first of keyword, term, query
\* that the header has
_row_dict_for_header(hdr, seed, kw, comp_c, comp_n) ==
    LET has(c) == c \in Range(hdr)
        cell(c) ==
            IF c \in {"seed", "seed_name", "parent"} THEN seed
            ELSE IF c = "keyword" THEN kw
            ELSE IF c = "term" /\ ~has("keyword") THEN kw
            ELSE IF c = "query" /\ ~has("keyword") /\ ~has("term") THEN kw
            ELSE IF c = "comp_coupang" THEN CountCell(comp_c)
            ELSE IF c = "comp_naver" THEN CountCell(comp_n)
            ELSE IF c = "comp_combined" THEN CombinedCell(comp_c, comp_n)
            ELSE IF c = "scraped_at" THEN "now"
            ELSE ""
    IN  [kind |-> "row", cols |-> hdr, cells |-> [i \in DOMAIN hdr |-> cell(hdr[i])]]

\* the counts a lookup can return under a site mode
CoupangCounts(mode) == IF mode \in {"both", "coupang"} THEN {NoCount, 2} ELSE {NoCount}

NaverCounts(mode) == IF mode \in {"both", "naver"} THEN {NoCount, 5} ELSE {NoCount}

(***************************************************************************)
(* The aggregator's specification.                                         *)
(***************************************************************************)
InputCells == {<<"s1", "k1">>, <<"s1", "k2">>, <<" s1", "k1 ">>, <<"s2", "">>}

\* the header collect_competition's table is saved with by the main program
CompetitionSchema ==
    <<"seed_index", "seed_sanitized", "related_sanitized", "comp_coupang",
      "comp_naver", "comp_combined", "ts">>

CapitalHeader == <<"Seed", "Keyword", "comp_combined">>

TermHeader == <<"seed", "term", "comp_combined">>

NoFile == [exists |-> FALSE, lines |-> <<>>]

\* the output file before the first run: absent, empty (created beforehand,
\* or left by a run that was killed before its first flush), or left by an
\* earlier run or by another tool, with a header and at most one data row
InitialFiles ==
    {NoFile, [exists |-> TRUE, lines |-> <<>>]}
    \cup {[exists |-> TRUE, lines |-> <<HeaderLine(h)>>] :
            h \in {DefaultHeader, CompetitionSchema, CapitalHeader, TermHeader}}
    \cup {[exists |-> TRUE,
           lines |-> <<HeaderLine(DefaultHeader),
                       _row_dict_for_header(DefaultHeader, "s1", "k1", 2, NoCount)>>],
          [exists |-> TRUE,
           lines |-> <<HeaderLine(CompetitionSchema),
                       [kind |-> "row", cols |-> CompetitionSchema,
                        cells |-> <<"0", "s1", "k1", "2", "", "1.0986", "now">>]>>]}

FetchIdle ==
    /\ inTable = <<>>
    /\ site_mode = "both"
    /\ outFile = NoFile
    /\ outBuf = <<>>
    /\ errLog = <<>>
    /\ exist_keys = {}
    /\ header = <<>>
    /\ to_process = <<>>
    /\ idx = 0
    /\ fPc = "off"
    /\ runNo = 0
    /\ prevEnd = "none"
    /\ appended = <<>>
    /\ prevAppended = <<>>
    /\ skippedKeys = <<>>
    /\ diskAtStart = <<>>
    /\ fileAtStart = NoFile

FetchInit ==
    /\ inTable \in SeqsUpTo(InputCells, MaxInput)
    /\ site_mode \in {"both", "coupang", "naver"}
    /\ outFile \in InitialFiles
    /\ outBuf = <<>>
    /\ errLog = <<>>
    /\ exist_keys = {}
    /\ header = <<>>
    /\ to_process = <<>>
    /\ idx = 0
    /\ fPc = "idle"
    /\ runNo = 0
    /\ prevEnd = "none"
    /\ appended = <<>>
    /\ prevAppended = <<>>
    /\ skippedKeys = <<>>
    /\ diskAtStart = <<>>
    /\ fileAtStart = NoFile

\* the last run of a series: the runs before it have left outFile
FetchLastRunInit ==
    /\ inTable \in SeqsUpTo(InputCells, MaxInput)
    /\ site_mode \in {"both", "coupang", "naver"}
    /\ outFile \in InitialFiles
    /\ outBuf = <<>>
    /\ errLog = <<>>
    /\ exist_keys = {}
    /\ header = <<>>
    /\ to_process = <<>>
    /\ idx = 0
    /\ fPc = "idle"
    /\ runNo = MaxRuns - 1
    /\ prevEnd = "none"
    /\ appended = <<>>
    /\ prevAppended = <<>>
    /\ skippedKeys = <<>>
    /\ diskAtStart = <<>>
    /\ fileAtStart = NoFile

\* closing the output file writes what is still buffered
Closed(f, buf) == [exists |-> TRUE, lines |-> f.lines \o buf]

\* fetch_and_append up to the loop (lines 352-372): the existing header and
\* keys are read, the input pairs are listed, the header is chosen, the file
\* is opened for append (which creates it) and, when it did not exist, the
\* header line is written to it
StartRun ==
    /\ fPc \in {"idle", "done", "interrupted"}
    /\ runNo < MaxRuns
    /\ LET ex == _read_existing_header_and_keys(outFile)
           hdr == _choose_output_header(ex.header)
       IN  /\ exist_keys' = ex.keys
           /\ header' = hdr
           /\ outBuf' = IF ~outFile.exists THEN <<HeaderLine(hdr)>> ELSE <<>>
    /\ outFile' = [outFile EXCEPT !.exists = TRUE]
    /\ to_process' = _iter_input_rows(inTable)
    /\ idx' = 1
    /\ fPc' = "loop"
    /\ runNo' = runNo + 1
    /\ prevEnd' = IF fPc = "idle" THEN "none" ELSE fPc
    /\ appended' = <<>>
    /\ prevAppended' = appended
    /\ skippedKeys' = <<>>
    /\ diskAtStart' = DataLines(outFile.lines)
    /\ fileAtStart' = outFile
    /\ UNCHANGED <<inTable, site_mode, errLog>>
    /\ UNCHANGED <<sanVars, wgtVars, tokVars, scoreVars, lexVars, expVars, allVars, ccVars, colVars, canVars>>

\* lines 375-378: the key is in exist_keys
SkipKey ==
    /\ fPc = "loop" /\ idx <= Len(to_process)
    /\ to_process[idx] \in exist_keys
    /\ skippedKeys' = Append(skippedKeys, to_process[idx])
    /\ idx' = idx + 1
    /\ UNCHANGED <<inTable, site_mode, outFile, outBuf, errLog, exist_keys, header,
                   to_process, fPc, runNo, prevEnd, prevAppended, appended, diskAtStart, fileAtStart>>
    /\ UNCHANGED <<sanVars, wgtVars, tokVars, scoreVars, lexVars, expVars, allVars, ccVars, colVars, canVars>>

\* lines 383-391: both lookups return and the row is written to the file object
FetchAndWrite ==
    /\ fPc = "loop" /\ idx <= Len(to_process)
    /\ to_process[idx] \notin exist_keys
    /\ \E c \in CoupangCounts(site_mode), n \in NaverCounts(site_mode) :
          outBuf' = Append(outBuf,
                       _row_dict_for_header(header, to_process[idx][1],
                                            to_process[idx][2], c, n))
    /\ appended' = Append(appended, to_process[idx])
    /\ fPc' = "written"
    /\ UNCHANGED <<inTable, site_mode, outFile, errLog, exist_keys, header,
                   to_process, idx, runNo, prevEnd, prevAppended, skippedKeys, diskAtStart, fileAtStart>>
    /\ UNCHANGED <<sanVars, wgtVars, tokVars, scoreVars, lexVars, expVars, allVars, ccVars, colVars, canVars>>

\* lines 392-393: f.flush()
FlushRow ==
    /\ fPc = "written"
    /\ outFile' = [outFile EXCEPT !.lines = outFile.lines \o outBuf]
    /\ outBuf' = <<>>
    /\ idx' = idx + 1
    /\ fPc' = "loop"
    /\ UNCHANGED <<inTable, site_mode, errLog, exist_keys, header, to_process,
                   runNo, prevEnd, prevAppended, appended, skippedKeys, diskAtStart, fileAtStart>>
    /\ UNCHANGED <<sanVars, wgtVars, tokVars, scoreVars, lexVars, expVars, allVars, ccVars, colVars, canVars>>

\* lines 402-413: a lookup raises; one entry goes to the error log and the
\* loop goes on with the next pair
FetchRaisesMutAbort ==
    /\ fPc = "loop" /\ idx <= Len(to_process)
    /\ to_process[idx] \notin exist_keys
    /\ errLog' = Append(errLog, [site |-> site_mode, seed |-> to_process[idx][1],
                                 keyword |-> to_process[idx][2]])
    /\ idx' = Len(to_process) + 1
    /\ UNCHANGED <<inTable, site_mode, outFile, outBuf, exist_keys, header,
                   to_process, fPc, runNo, prevEnd, prevAppended, appended,
                   skippedKeys, diskAtStart, fileAtStart>>
    /\ UNCHANGED <<sanVars, wgtVars, tokVars, scoreVars, lexVars, expVars, allVars, ccVars, colVars, canVars>>

FetchRaises ==
    /\ fPc = "loop" /\ idx <= Len(to_process)
    /\ to_process[idx] \notin exist_keys
    /\ errLog' = Append(errLog, [site |-> site_mode, seed |-> to_process[idx][1],
                                 keyword |-> to_process[idx][2]])
    /\ idx' = idx + 1
    /\ UNCHANGED <<inTable, site_mode, outFile, outBuf, exist_keys, header,
                   to_process, fPc, runNo, prevEnd, prevAppended, appended, skippedKeys,
                   diskAtStart, fileAtStart>>
    /\ UNCHANGED <<sanVars, wgtVars, tokVars, scoreVars, lexVars, expVars, allVars, ccVars, colVars, canVars>>

\* lines 399-401: KeyboardInterrupt during a lookup, a sleep, the write or
\* the flush; the loop is left and the with statement closes the file
Interrupt ==
    /\ fPc \in {"loop", "written"}
    /\ idx <= Len(to_process)
    /\ outFile' = Closed(outFile, outBuf)
    /\ outBuf' = <<>>
    /\ fPc' = "interrupted"
    /\ UNCHANGED <<inTable, site_mode, errLog, exist_keys, header, to_process,
                   idx, runNo, prevEnd, prevAppended, appended, skippedKeys, diskAtStart, fileAtStart>>
    /\ UNCHANGED <<sanVars, wgtVars, tokVars, scoreVars, lexVars, expVars, allVars, ccVars, colVars, canVars>>

\* the loop is exhausted and the with statement closes the file
FinishRun ==
    /\ fPc = "loop" /\ idx > Len(to_process)
    /\ outFile' = Closed(outFile, outBuf)
    /\ outBuf' = <<>>
    /\ fPc' = "done"
    /\ UNCHANGED <<inTable, site_mode, errLog, exist_keys, header, to_process,
                   idx, runNo, prevEnd, prevAppended, appended, skippedKeys, diskAtStart, fileAtStart>>
    /\ UNCHANGED <<sanVars, wgtVars, tokVars, scoreVars, lexVars, expVars, allVars, ccVars, colVars, canVars>>

FetchNext ==
    \/ StartRun
    \/ SkipKey
    \/ FetchAndWrite
    \/ FlushRow
    \/ FetchRaises
    \/ Interrupt
    \/ FinishRun

(***************************************************************************)
(* Seed canonicalization (tools/compute_scores.py, _canon_seed_str) and    *)
(* the check of it in tools/verify_dtypes.py.  A seed text is a sequence   *)
(* of characters: the digits "0" and "1", the point, the minus sign and    *)
(* the space.  The texts are short, so float(s) is exact and int(float(s)) *)
(* is the number the digits spell.                                         *)
(***************************************************************************)
SeedChars == {"0", "1", ".", "-", " "}

\* \d on one character
IsDigit(c) == c \in {"0", "1", "2", "3", "4", "5", "6", "7", "8", "9"}

DigitVal(c) ==
    CASE c = "0" -> 0 [] c = "1" -> 1 [] c = "2" -> 2 [] c = "3" -> 3 [] c = "4" -> 4
      [] c = "5" -> 5 [] c = "6" -> 6 [] c = "7" -> 7 [] c = "8" -> 8 [] c = "9" -> 9

DigitChar(n) == <<"0", "1", "2", "3", "4", "5", "6", "7", "8", "9">>[n + 1]

AllIn(s, a, b, P(_)) == \A i \in a..b : P(s[i])

IsZero(c) == c = "0"

\* _float_like = re.compile(r"^\s*\d+(\.0+)?\s*$"), .match(s)
_float_like(s) ==
    \E i \in 0..Len(s) : \E j \in (i + 1)..Len(s) : \E k \in j..Len(s) :
        /\ AllIn(s, 1, i, IsSpace)
        /\ AllIn(s, i + 1, j, IsDigit)
        /\ \/ k = j
           \/ /\ k >= j + 2
              /\ s[j + 1] = "."
              /\ AllIn(s, j + 2, k, IsZero)
        /\ AllIn(s, k + 1, Len(s), IsSpace)

\* int(float(s)) for a text that _float_like matches and strip() has trimmed:
\* the digits before the point
RECURSIVE IntOfFloat(_)
IntOfFloat(s) ==
    IF s = <<>> \/ ~IsDigit(s[1]) THEN 0
    ELSE LET m == CHOOSE m \in 1..Len(s) :
                      /\ AllIn(s, 1, m, IsDigit)
                      /\ (m = Len(s) \/ ~IsDigit(s[m + 1]))
             RECURSIVE Val(_)
             Val(n) == IF n = 0 THEN 0 ELSE 10 * Val(n - 1) + DigitVal(s[n])
         IN  Val(m)

\* str(n) for an int n >= 0
RECURSIVE IntStr(_)
IntStr(n) == IF n < 10 THEN <<DigitChar(n)>> ELSE IntStr(n \div 10) \o <<DigitChar(n % 10)>>

\* what the scorer's tables spell as a string, as a text and back
SeedText(x) ==
    CASE x = "" -> <<>> [] x = "1" -> <<"1">> [] x = "2" -> <<"2">>
      [] x = "1.0" -> <<"1", ".", "0">>

SeedCell(s) ==
    CASE s = <<>> -> "" [] s = <<"1">> -> "1" [] s = <<"2">> -> "2"
      [] s = <<"1", ".", "0">> -> "1.0"

\* _canon_seed_str on the text str(x)
_canon_seed_str(x) ==
    LET s == Strip(x)
    IN  IF _float_like(s) THEN IntStr(IntOfFloat(s)) ELSE s

\* verify_dtypes, lines 56-60: the test that puts a row in "bad"
SeedIsBad(v) == v # <<>> /\ _float_like(v) /\ "." \in Range(v)

SeedTexts == SeqsUpTo(SeedChars, MaxSeedLen)

CanIdle ==
    /\ seed_raw = <<>>
    /\ seed_once = <<>>
    /\ seed_twice = <<>>
    /\ seed_flag = FALSE
    /\ cnPc = "off"

CanInit ==
    /\ seed_raw \in SeedTexts
    /\ seed_once = <<>>
    /\ seed_twice = <<>>
    /\ seed_flag = FALSE
    /\ cnPc = "start"

\* compute_scores, line 304 / 358: the seed column is mapped
CanonSeed ==
    /\ cnPc = "start"
    /\ seed_once' = _canon_seed_str(seed_raw)
    /\ cnPc' = "once"
    /\ UNCHANGED <<seed_raw, seed_twice, seed_flag>>
    /\ UNCHANGED <<sanVars, wgtVars, tokVars, fetchVars, scoreVars, lexVars, expVars, allVars, ccVars, colVars>>

\* a canonical seed is mapped again (a scores table used as a base table)
CanonSeedAgain ==
    /\ cnPc = "once"
    /\ seed_twice' = _canon_seed_str(seed_once)
    /\ cnPc' = "twice"
    /\ UNCHANGED <<seed_raw, seed_once, seed_flag>>
    /\ UNCHANGED <<sanVars, wgtVars, tokVars, fetchVars, scoreVars, lexVars, expVars, allVars, ccVars, colVars>>

\* verify_dtypes, lines 54-63, on the seed the scorer wrote
VerifySeed ==
    /\ cnPc = "twice"
    /\ seed_flag' = SeedIsBad(seed_once)
    /\ cnPc' = "verified"
    /\ UNCHANGED <<seed_raw, seed_once, seed_twice>>
    /\ UNCHANGED <<sanVars, wgtVars, tokVars, fetchVars, scoreVars, lexVars, expVars, allVars, ccVars, colVars>>

CanNext == CanonSeed \/ CanonSeedAgain \/ VerifySeed

(***************************************************************************)
(* Scorer (tools/compute_scores.py).  A table is a sequence of rows; a     *)
(* numeric cell is a float as above, NoVal where pandas holds NaN for a    *)
(* blank cell or an unmatched row.                                         *)
(***************************************************************************)
\* x - y on floats, for y <= x (there is no -inf in the model)
Sub(x, y) ==
    IF x.k = "nan" \/ y.k = "nan" THEN NaN
    ELSE IF x.k = "inf" /\ y.k = "inf" THEN NaN
    ELSE IF x.k = "inf" THEN Inf
    ELSE Q(x.n * y.d - y.n * x.d, x.d * y.d)

\* math.log(1 + x) for the counts of the model, to four decimals
Log1p(x) ==
    IF x.k # "fin" THEN x
    ELSE IF x.n = 0 THEN Fin(0)
    ELSE IF x = Fin(2) THEN Q(10986, 10000)
    ELSE Q(17918, 10000)


\* str(token).lower() for the tokens of the model
LowerTok(tok) == IF tok = "T1" THEN "t1" ELSE tok

\* `token.lower() in text.lower()` for the texts of the model
TextContains(txt, tok) ==
    LowerTok(tok) \in (IF txt = "t1 k" THEN {"t1", "k", "t1 k"}
             ELSE IF txt = "k" THEN {"k"}
             ELSE {})

\* _compute_intent_proxy(text, tokens)
RECURSIVE SumTokens(_, _)
SumTokens(txt, tokens) ==
    IF tokens = <<>> THEN Fin(0)
    ELSE IF TextContains(txt, Head(tokens)[1])
         THEN Add(Head(tokens)[2], SumTokens(txt, Tail(tokens)))
         ELSE SumTokens(txt, Tail(tokens))

_compute_intent_proxy(txt, tokens) ==
    IF txt = "" \/ tokens = <<>> THEN Fin(0) ELSE SumTokens(txt, tokens)

\* lines 302-316: seed canonicalised, keyword_sanitized copied from keyword
BuildBase(rows) ==
    [i \in DOMAIN rows |->
        [seed |-> SeedCell(_canon_seed_str(SeedText(rows[i].seed))), keyword |-> rows[i].keyword,
         keyword_sanitized |-> rows[i].keyword]]

\* pd.to_numeric(..., errors="coerce").fillna(0)
FillZero(x) == IF x.k \in {"none", "text", "nan"} THEN Fin(0) ELSE x

\* lines 361-374: seeds canonicalised; comp_combined derived from the counts
\* when every comp_combined cell is blank
LoadComp(rows) ==
    LET derive == \A i \in DOMAIN rows : rows[i].comp_combined.k = "none"
    IN  [i \in DOMAIN rows |->
            [seed |-> SeedCell(_canon_seed_str(SeedText(rows[i].seed))),
             keyword |-> rows[i].keyword,
             comp_coupang |-> rows[i].comp_coupang,
             comp_naver |-> rows[i].comp_naver,
             comp_combined |->
                IF derive
                THEN Add(Log1p(FillZero(rows[i].comp_coupang)),
                         Log1p(FillZero(rows[i].comp_naver)))
                ELSE rows[i].comp_combined]]

MergedRow(b, cc, nn, comb) ==
    [seed |-> b.seed, keyword |-> b.keyword, keyword_sanitized |-> b.keyword_sanitized,
     comp_coupang |-> cc, comp_naver |-> nn, comp_combined |-> comb,
     intent_proxy |-> NoVal, intent_norm |-> NoVal, competition_norm |-> NoVal,
     score |-> NoVal]

\* pd.merge(base, comp, on=["seed", "keyword"], how="left"): the base rows in
\* order, each once per matching competition row (in competition order), or
\* once with NaN cells when nothing matches
RECURSIVE LeftMerge(_, _)
LeftMerge(base, comp) ==
    IF base = <<>> THEN <<>>
    ELSE LET b == Head(base)
             hits == SelectSeq(comp, LAMBDA c : c.seed = b.seed /\ c.keyword = b.keyword)
             rows == IF hits = <<>> THEN <<MergedRow(b, NoVal, NoVal, NoVal)>>
                     ELSE [i \in DOMAIN hits |->
                             MergedRow(b, hits[i].comp_coupang, hits[i].comp_naver,
                                       hits[i].comp_combined)]
         IN  rows \o LeftMerge(Tail(base), comp)

\* lines 376-392: the merge (a copy of base when there is no competition
\* file) and the NaN fill of the competition metrics
FillNaMutKeepNaN(rows, loaded) ==
    [i \in DOMAIN rows |->
        [rows[i] EXCEPT
            !.comp_coupang = IF loaded THEN FillZero(@) ELSE @,
            !.comp_naver = IF loaded THEN FillZero(@) ELSE @,
            !.comp_combined = IF loaded THEN @ ELSE Fin(0)]]

FillNa(rows, loaded) ==
    [i \in DOMAIN rows |->
        [rows[i] EXCEPT
            !.comp_coupang = IF loaded THEN FillZero(@) ELSE @,
            !.comp_naver = IF loaded THEN FillZero(@) ELSE @,
            !.comp_combined = FillZero(@)]]

MergeAndFill(base, comp) ==
    IF comp.present
    THEN FillNa(LeftMerge(BuildBase(base), LoadComp(comp.rows)), TRUE)
    ELSE FillNa(LeftMerge(BuildBase(base), <<>>), FALSE)

\* Series.min() and Series.max(): NaN is skipped, NaN when nothing is left
Valid(s) == {i \in DOMAIN s : s[i].k \in {"fin", "inf"}}

MinOf(s) ==
    IF Valid(s) = {} THEN NaN
    ELSE s[CHOOSE i \in Valid(s) : \A j \in Valid(s) : Leq(s[i], s[j])]

MaxOf(s) ==
    IF Valid(s) = {} THEN NaN
    ELSE s[CHOOSE i \in Valid(s) : \A j \in Valid(s) : Leq(s[j], s[i])]

\* pd.to_numeric(series, errors="coerce") on one cell
FillNaNCell(x) == IF x.k \in {"none", "text"} THEN NaN ELSE x

\* _minmax(series)
_minmax(s) ==
    LET min_v == MinOf(s)
        max_v == MaxOf(s)
        rng == Sub(max_v, min_v)
    IN  IF min_v.k = "nan" \/ max_v.k = "nan" \/ rng = Fin(0)
        THEN [i \in DOMAIN s |-> Fin(0)]
        ELSE [i \in DOMAIN s |-> Div(Sub(FillNaNCell(s[i]), min_v), rng)]

\* lines 396-400: intent proxy, the two normalisations and the score
Scored(rows, w, tokens) ==
    LET proxy == [i \in DOMAIN rows |->
                    _compute_intent_proxy(rows[i].keyword_sanitized, tokens)]
        inorm == _minmax(proxy)
        cnorm == _minmax([i \in DOMAIN rows |-> rows[i].comp_combined])
    IN  [i \in DOMAIN rows |->
            [rows[i] EXCEPT
                !.intent_proxy = proxy[i],
                !.intent_norm = inorm[i],
                !.competition_norm = cnorm[i],
                !.score = Mul(Fin(100),
                              Add(Mul(w.W_intent, inorm[i]),
                                  Mul(w.W_competition, Sub(Fin(1), cnorm[i]))))]]

KeyOf(r) == <<r.seed, r.keyword>>

\* _dedupe(df): drop_duplicates(subset=["seed", "keyword"], keep="first")
_dedupeMutKeepLast(df) ==
    LET keep == {i \in DOMAIN df : \A j \in DOMAIN df : j > i => KeyOf(df[j]) # KeyOf(df[i])}
        f[i \in 0..Len(df)] ==
            IF i = 0 THEN <<>>
            ELSE IF i \in keep THEN Append(f[i - 1], df[i]) ELSE f[i - 1]
    IN  f[Len(df)]

_dedupe(df) ==
    LET keep == {i \in DOMAIN df : \A j \in DOMAIN df : j < i => KeyOf(df[j]) # KeyOf(df[i])}
        f[i \in 0..Len(df)] ==
            IF i = 0 THEN <<>>
            ELSE IF i \in keep THEN Append(f[i - 1], df[i]) ELSE f[i - 1]
    IN  f[Len(df)]

\* the order of two seed strings
SeedRank(x) == IF x = "" THEN 0 ELSE IF x = "1" THEN 1 ELSE IF x = "1.0" THEN 2 ELSE 3

\* a sorts strictly before b: seed ascending, then score descending, NaN last
SortsBefore(a, b) ==
    \/ SeedRank(a.seed) < SeedRank(b.seed)
    \/ /\ a.seed = b.seed
       /\ \/ Less(b.score, a.score)
          \/ a.score.k # "nan" /\ b.score.k = "nan"

\* sort_values(["seed", "score"], ascending=[True, False]): a stable sort
RECURSIVE InsertSorted(_, _)
InsertSorted(acc, x) ==
    IF acc = <<>> THEN <<x>>
    ELSE IF SortsBefore(x, Head(acc)) THEN <<x>> \o acc
    ELSE <<Head(acc)>> \o InsertSorted(Tail(acc), x)

RECURSIVE sort_values(_)
sort_values(df) ==
    IF df = <<>> THEN <<>>
    ELSE InsertSorted(sort_values(Take(df, Len(df) - 1)), df[Len(df)])

(***************************************************************************)
(* The scorer's specification.                                             *)
(***************************************************************************)
WeightSheet(wi, wc) ==
    [present |-> TRUE, kvHeader |-> TRUE,
     kv |-> <<[key |-> "W_intent", val |-> wi], [key |-> "W_competition", val |-> wc]>>]

TokenSheet ==
    [present |-> TRUE, header |-> TRUE, enCol |-> TRUE,
     rows |-> <<[tok |-> "t1", w |-> Fin(2), en |-> "true"]>>]

\* token blocks with an upper-case token, with the token t1 on two rows, and
\* with a negative weight
TokenSheetOf(rws) == [present |-> TRUE, header |-> TRUE, enCol |-> TRUE, rows |-> rws]

TokenSheetUpper == TokenSheetOf(<<[tok |-> "T1", w |-> Fin(2), en |-> "true"]>>)

TokenSheetTwice ==
    TokenSheetOf(<<[tok |-> "t1", w |-> Fin(2), en |-> "true"],
                   [tok |-> "t1", w |-> Fin(2), en |-> "true"]>>)

TokenSheetNegative == TokenSheetOf(<<[tok |-> "t1", w |-> Fin(-1), en |-> "true"]>>)

\* the config sheets of the runs: no weight table and no token block; then,
\* with one enabled token, the weights 1 and 3, -1 and 3, inf and 1
Configs ==
    {[sheet |-> [present |-> TRUE, kvHeader |-> FALSE, kv |-> <<>>],
      toks |-> [present |-> TRUE, header |-> FALSE, enCol |-> FALSE, rows |-> <<>>]],
     [sheet |-> WeightSheet(Fin(1), Fin(3)), toks |-> TokenSheet],
     [sheet |-> WeightSheet(Fin(-1), Fin(3)), toks |-> TokenSheet],
     [sheet |-> WeightSheet(Inf, Fin(1)), toks |-> TokenSheet]}

\* the weights 1 and 3 with the other token blocks
TokenConfigs ==
    {[sheet |-> WeightSheet(Fin(1), Fin(3)), toks |-> t] :
        t \in {TokenSheetUpper, TokenSheetTwice, TokenSheetNegative}}

BaseRows == [seed : {"1.0", "2"}, keyword : {"k", "t1 k"}]

\* a competition row: the counts and the combined value blank, a count
\* alone, a count and a combined value, or the combined value inf
CompCells ==
    {[comp_coupang |-> NoVal, comp_combined |-> NoVal],
     [comp_coupang |-> Fin(2), comp_combined |-> NoVal],
     [comp_coupang |-> Fin(2), comp_combined |-> Fin(1)],
     [comp_coupang |-> NoVal, comp_combined |-> Inf]}

CompRows ==
    {[seed |-> "1", keyword |-> "k", comp_coupang |-> c.comp_coupang,
      comp_naver |-> NoVal, comp_combined |-> c.comp_combined] : c \in CompCells}
    \cup {[seed |-> "1", keyword |-> "t1 k", comp_coupang |-> Fin(2),
           comp_naver |-> NoVal, comp_combined |-> Fin(1)]}

\* a competition table that holds the pair (1, k) twice, with the combined
\* values 1 and 3
PairRow(c) ==
    [seed |-> "1", keyword |-> "k", comp_coupang |-> NoVal, comp_naver |-> NoVal,
     comp_combined |-> c]

RepeatedPair == {<<PairRow(Fin(1)), PairRow(Fin(3))>>, <<PairRow(Fin(3)), PairRow(Fin(1))>>}

NoConfig ==
    [sheet |-> NoSheet, toks |-> NoTokSheet]

ScoreIdle ==
    /\ config = NoConfig
    /\ baseIn = <<>>
    /\ compIn = [present |-> FALSE, rows |-> <<>>]
    /\ sc_weights = NoPair
    /\ sc_tokens = <<>>
    /\ merged_df = <<>>
    /\ out_df = <<>>
    /\ scPc = "off"

ScoreInit ==
    /\ baseIn \in SeqsUpTo(BaseRows, MaxBase)
    /\ \/ /\ config \in Configs
          /\ compIn \in {[present |-> FALSE, rows |-> <<>>]}
                        \cup {[present |-> TRUE, rows |-> r] :
                                  r \in SeqsUpTo(CompRows, MaxComp) \cup RepeatedPair}
       \/ /\ config \in TokenConfigs
          /\ compIn = [present |-> FALSE, rows |-> <<>>]
    /\ sc_weights = NoPair
    /\ sc_tokens = <<>>
    /\ merged_df = <<>>
    /\ out_df = <<>>
    /\ scPc = "start"

\* compute_scores, line 292
ScReadConfig ==
    /\ scPc = "start"
    /\ sc_weights' = _read_excel_config_weights(config.sheet)
    /\ sc_tokens' = _read_excel_config_tokens(config.toks)
    /\ scPc' = "config"
    /\ UNCHANGED <<config, baseIn, compIn, merged_df, out_df>>
    /\ UNCHANGED <<sanVars, wgtVars, tokVars, fetchVars, lexVars, expVars, allVars, ccVars, colVars, canVars>>

\* compute_scores, lines 296-392
ScMerge ==
    /\ scPc = "config"
    /\ merged_df' = MergeAndFill(baseIn, compIn)
    /\ scPc' = "merged"
    /\ UNCHANGED <<config, baseIn, compIn, sc_weights, sc_tokens, out_df>>
    /\ UNCHANGED <<sanVars, wgtVars, tokVars, fetchVars, lexVars, expVars, allVars, ccVars, colVars, canVars>>

\* compute_scores, lines 394-425: score, deduplicate, sort, write
ScEmit ==
    /\ scPc = "merged"
    /\ merged_df' = Scored(merged_df, sc_weights, sc_tokens)
    /\ out_df' = sort_values(_dedupe(merged_df'))
    /\ scPc' = "emitted"
    /\ UNCHANGED <<config, baseIn, compIn, sc_weights, sc_tokens>>
    /\ UNCHANGED <<sanVars, wgtVars, tokVars, fetchVars, lexVars, expVars, allVars, ccVars, colVars, canVars>>

ScoreNext ==
    \/ ScReadConfig
    \/ ScMerge
    \/ ScEmit

(***************************************************************************)
(* ConfigResolver, prohibited lexicon.  A term is a text (a sequence of    *)
(* characters); a lexicon is [words, symbols], two lists of terms.         *)
(***************************************************************************)
\* _clean_term(s): " ".join(_cell_str(s).split())
_clean_term(s) == CollapseRuns(Strip(s))

\* [f(x) for x in lst if f(x)] for f = _clean_term and f = _cell_str
CleanedNonEmpty(lst) ==
    LET c == [i \in DOMAIN lst |-> _clean_term(lst[i])]
    IN  SelectSeq(c, LAMBDA x : x # <<>>)

StrippedNonEmpty(lst) ==
    LET c == [i \in DOMAIN lst |-> _cell_str(lst[i])]
    IN  SelectSeq(c, LAMBDA x : x # <<>>)

\* load_default_prohibited(json_path), for a readable JSON file
load_default_prohibited(data) ==
    [words |-> CleanedNonEmpty(data.words), symbols |-> StrippedNonEmpty(data.symbols)]

\* parse_prohibited_from_config: the word cells cleaned, the symbol cells
\* stripped, blank cells skipped
parse_prohibited_from_config(cells) ==
    [words |-> CleanedNonEmpty(cells.words), symbols |-> StrippedNonEmpty(cells.symbols)]

\* _merge(a, b) of merge_prohibited: the cleaned entries of a + b, an entry
\* kept when it is not empty and not in `seen`
RECURSIVE MergeLoopMutLowerSeen(_, _)
MergeLoopMutLowerSeen(xs, out) ==
    IF xs = <<>> THEN out
    ELSE LET x2 == _clean_term(Head(xs))
         IN  MergeLoopMutLowerSeen(Tail(xs),
                IF x2 # <<>> /\ Lower(x2) \notin {Lower(out[i]) : i \in DOMAIN out}
                THEN Append(out, x2) ELSE out)

RECURSIVE MergeLoop(_, _)
MergeLoop(xs, out) ==
    IF xs = <<>> THEN out
    ELSE LET x2 == _clean_term(Head(xs))
         IN  MergeLoop(Tail(xs),
                IF x2 # <<>> /\ x2 \notin Range(out) THEN Append(out, x2) ELSE out)

_merge(a, b) == MergeLoop(a \o b, <<>>)

merge_prohibited(base, extra) ==
    [words |-> _merge(base.words, extra.words),
     symbols |-> _merge(base.symbols, extra.symbols)]

(***************************************************************************)
(* The lexicon resolver's specification.                                   *)
(***************************************************************************)
LexTerms == {<<>>, <<"a">>, <<"A">>, <<" ", "a">>, <<"a", " ", "b">>, <<"a", " ", " ", "b">>}

LexSymbols == {<<"!">>, <<" ", "!">>, <<",">>}

NoLexicon == [words |-> <<>>, symbols |-> <<>>]

LexIdle ==
    /\ rawBase = NoLexicon
    /\ rawExtra = NoLexicon
    /\ base_proh = NoLexicon
    /\ extra_proh = NoLexicon
    /\ merged_proh = NoLexicon
    /\ merged_again = NoLexicon
    /\ lexPc = "off"

LexInit ==
    /\ rawBase \in [words : SeqsUpTo(LexTerms, MaxLex), symbols : SeqsUpTo(LexSymbols, 1)]
    /\ rawExtra \in [words : SeqsUpTo(LexTerms, MaxLex), symbols : SeqsUpTo(LexSymbols, 1)]
    /\ base_proh = NoLexicon
    /\ extra_proh = NoLexicon
    /\ merged_proh = NoLexicon
    /\ merged_again = NoLexicon
    /\ lexPc = "start"

\* main(), lines 978-979
LoadLexicon ==
    /\ lexPc = "start"
    /\ base_proh' = load_default_prohibited(rawBase)
    /\ extra_proh' = parse_prohibited_from_config(rawExtra)
    /\ lexPc' = "loaded"
    /\ UNCHANGED <<rawBase, rawExtra, merged_proh, merged_again>>
    /\ UNCHANGED <<sanVars, wgtVars, tokVars, fetchVars, scoreVars, expVars, allVars, ccVars, colVars, canVars>>

\* main(), line 980
MergeProhibited ==
    /\ lexPc = "loaded"
    /\ merged_proh' = merge_prohibited(base_proh, extra_proh)
    /\ lexPc' = "merged"
    /\ UNCHANGED <<rawBase, rawExtra, base_proh, extra_proh, merged_again>>
    /\ UNCHANGED <<sanVars, wgtVars, tokVars, fetchVars, scoreVars, expVars, allVars, ccVars, colVars, canVars>>

\* the merge applied to its own result and the same extras
MergeAgain ==
    /\ lexPc = "merged"
    /\ merged_again' = merge_prohibited(merged_proh, extra_proh)
    /\ lexPc' = "again"
    /\ UNCHANGED <<rawBase, rawExtra, base_proh, extra_proh, merged_proh>>
    /\ UNCHANGED <<sanVars, wgtVars, tokVars, fetchVars, scoreVars, expVars, allVars, ccVars, colVars, canVars>>

LexNext ==
    \/ LoadLexicon
    \/ MergeProhibited
    \/ MergeAgain

(***************************************************************************)
(* ExpansionCollector: fetch_naver_suggest and expand_for_seed.            *)
(***************************************************************************)
\* _ieq(a, b): case-insensitive, trimmed equality
_ieq(a, b) == Lower(Strip(a)) = Lower(Strip(b))

\* fetch_naver_suggest, the loop over the string leaves of the reply: a leaf
\* is cleaned and kept when it is not empty and not seen before
RECURSIVE SuggestLoop(_, _)
SuggestLoop(ss, cands) ==
    IF ss = <<>> THEN cands
    ELSE LET s2 == _clean_term(Head(ss))
         IN  SuggestLoop(Tail(ss),
                IF s2 = <<>> \/ s2 \in Range(cands) THEN cands ELSE Append(cands, s2))

\* fetch_naver_suggest when the service answers
fetch_naver_suggest(ss) == SuggestLoop(ss, <<>>)

\* rel_sanitized, _log = sanitize_text(raw, proh_words, proh_symbols)
rel_sanitized(raw) == sanitize_text(raw, proh_order, proh_symbols).sanitized

\* the record appended for a kept suggestion
ExpandedRow(raw, rel, rk) ==
    [seed_index |-> seed_idx, seed_original |-> seed_orig,
     seed_sanitized |-> seed_sanitized, related_original |-> raw,
     related_sanitized |-> rel, source |-> "naver_suggest", rank |-> rk]

\* the keywords of the seed rows, the lexicons and the service's string leaves
SeedPool == {<<>>, <<"b">>, <<"a", "b">>, <<"a", "!", "b", "b">>}

ExpLexicons ==
    {[order |-> <<>>, symbols |-> <<>>],
     [order |-> << <<"a", "b">> >>, symbols |-> <<"!">>]}

LeafPool ==
    {<<"b">>, <<"B">>, <<"b", "!">>, <<"a">>, <<"a", "b">>, <<"a", "b", "b">>, <<" ">>}

ExpIdle ==
    /\ seed_idx = 0
    /\ seed_orig = <<>>
    /\ seed_sanitized = <<>>
    /\ max_each = 0
    /\ proh_order = <<>>
    /\ proh_symbols = <<>>
    /\ leaves = <<>>
    /\ suggestions = <<>>
    /\ out_rows = <<>>
    /\ seen_rel = {}
    /\ rank = 0
    /\ sgI = 0
    /\ exPc = "off"

\* expand_all, lines 718-731: the call of expand_for_seed for one seed row
ExpInit ==
    /\ seed_idx = 0
    /\ seed_orig \in SeedPool
    /\ \E lx \in ExpLexicons :
          /\ proh_order = lx.order
          /\ proh_symbols = lx.symbols
          /\ seed_sanitized = sanitize_text(seed_orig, lx.order, lx.symbols).sanitized
    /\ max_each \in 0..MaxEach
    /\ leaves \in SeqsUpTo(LeafPool, MaxSugg)
    /\ suggestions = <<>>
    /\ out_rows = <<>>
    /\ seen_rel = {}
    /\ rank = 0
    /\ sgI = 0
    /\ exPc = "start"

\* lines 669-670: an empty sanitized seed returns []
ExpandEmptySeed ==
    /\ exPc = "start"
    /\ seed_sanitized = <<>>
    /\ exPc' = "returned"
    /\ UNCHANGED <<seed_idx, seed_orig, seed_sanitized, max_each, proh_order,
                   proh_symbols, leaves, suggestions, out_rows, seen_rel, rank, sgI>>
    /\ UNCHANGED <<sanVars, wgtVars, tokVars, fetchVars, scoreVars, lexVars, allVars, ccVars, colVars, canVars>>

\* lines 672-677: the service answers; the loop starts
FetchSuggest ==
    /\ exPc = "start"
    /\ seed_sanitized # <<>>
    /\ suggestions' = fetch_naver_suggest(leaves)
    /\ sgI' = 1
    /\ exPc' = "loop"
    /\ UNCHANGED <<seed_idx, seed_orig, seed_sanitized, max_each, proh_order,
                   proh_symbols, leaves, out_rows, seen_rel, rank>>
    /\ UNCHANGED <<sanVars, wgtVars, tokVars, fetchVars, scoreVars, lexVars, allVars, ccVars, colVars, canVars>>

\* fetch_naver_suggest, lines 641-651: every attempt failed, the list is empty
FetchSuggestFails ==
    /\ exPc = "start"
    /\ seed_sanitized # <<>>
    /\ suggestions' = <<>>
    /\ sgI' = 1
    /\ exPc' = "loop"
    /\ UNCHANGED <<seed_idx, seed_orig, seed_sanitized, max_each, proh_order,
                   proh_symbols, leaves, out_rows, seen_rel, rank>>
    /\ UNCHANGED <<sanVars, wgtVars, tokVars, fetchVars, scoreVars, lexVars, allVars, ccVars, colVars, canVars>>

\* lines 680-685: a blank suggestion, the seed itself, or one that sanitizes
\* to nothing or to the seed
ExpandSkip ==
    /\ exPc = "loop"
    /\ sgI <= Len(suggestions)
    /\ LET raw == suggestions[sgI]
       IN  \/ Strip(raw) = <<>>
           \/ _ieq(raw, seed_sanitized)
           \/ rel_sanitized(raw) = <<>>
           \/ _ieq(rel_sanitized(raw), seed_sanitized)
    /\ sgI' = sgI + 1
    /\ UNCHANGED <<seed_idx, seed_orig, seed_sanitized, max_each, proh_order,
                   proh_symbols, leaves, suggestions, out_rows, seen_rel, rank, exPc>>
    /\ UNCHANGED <<sanVars, wgtVars, tokVars, fetchVars, scoreVars, lexVars, allVars, ccVars, colVars, canVars>>

\* lines 687-688: the sanitized value was kept before
ExpandSeen ==
    /\ exPc = "loop"
    /\ sgI <= Len(suggestions)
    /\ LET raw == suggestions[sgI]
       IN  /\ ~(Strip(raw) = <<>> \/ _ieq(raw, seed_sanitized))
           /\ ~(rel_sanitized(raw) = <<>> \/ _ieq(rel_sanitized(raw), seed_sanitized))
           /\ rel_sanitized(raw) \in seen_rel
    /\ sgI' = sgI + 1
    /\ UNCHANGED <<seed_idx, seed_orig, seed_sanitized, max_each, proh_order,
                   proh_symbols, leaves, suggestions, out_rows, seen_rel, rank, exPc>>
    /\ UNCHANGED <<sanVars, wgtVars, tokVars, fetchVars, scoreVars, lexVars, allVars, ccVars, colVars, canVars>>

\* lines 689-703: the suggestion is kept with the next rank; the loop ends
\* when the rank has reached max_each
ExpandKeep ==
    /\ exPc = "loop"
    /\ sgI <= Len(suggestions)
    /\ LET raw == suggestions[sgI]
           rel == rel_sanitized(raw)
       IN  /\ ~(Strip(raw) = <<>> \/ _ieq(raw, seed_sanitized))
           /\ ~(rel = <<>> \/ _ieq(rel, seed_sanitized))
           /\ rel \notin seen_rel
           /\ seen_rel' = seen_rel \cup {rel}
           /\ out_rows' = Append(out_rows, ExpandedRow(raw, rel, rank + 1))
    /\ rank' = rank + 1
    /\ IF rank + 1 >= max_each
       THEN exPc' = "returned" /\ sgI' = sgI
       ELSE exPc' = exPc /\ sgI' = sgI + 1
    /\ UNCHANGED <<seed_idx, seed_orig, seed_sanitized, max_each, proh_order,
                   proh_symbols, leaves, suggestions>>
    /\ UNCHANGED <<sanVars, wgtVars, tokVars, fetchVars, scoreVars, lexVars, allVars, ccVars, colVars, canVars>>

\* line 704: the list is exhausted
ExpandReturn ==
    /\ exPc = "loop"
    /\ sgI > Len(suggestions)
    /\ exPc' = "returned"
    /\ UNCHANGED <<seed_idx, seed_orig, seed_sanitized, max_each, proh_order,
                   proh_symbols, leaves, suggestions, out_rows, seen_rel, rank, sgI>>
    /\ UNCHANGED <<sanVars, wgtVars, tokVars, fetchVars, scoreVars, lexVars, allVars, ccVars, colVars, canVars>>

ExpNext ==
    \/ ExpandEmptySeed
    \/ FetchSuggest
    \/ FetchSuggestFails
    \/ ExpandSkip
    \/ ExpandSeen
    \/ ExpandKeep
    \/ ExpandReturn

(***************************************************************************)
(* ExpansionCollector: expand_all, with the attempts of                    *)
(* fetch_naver_suggest.  The lexicon of this run is empty.                 *)
(***************************************************************************)
\* expand_for_seed, lines 676-704, as a function of the suggestion list
RECURSIVE ExpandLoop(_, _, _, _, _)
ExpandLoop(sugg, sidx, san, n, out) ==
    IF sugg = <<>> THEN out
    ELSE LET raw == Head(sugg)
             rel == sanitize_text(raw, <<>>, <<>>).sanitized
         IN  IF \/ Strip(raw) = <<>> \/ _ieq(raw, san)
                \/ rel = <<>> \/ _ieq(rel, san)
                \/ rel \in {out[i].related_sanitized : i \in DOMAIN out}
             THEN ExpandLoop(Tail(sugg), sidx, san, n, out)
             ELSE LET out2 == Append(out, [seed_index |-> sidx, seed_sanitized |-> san,
                                           related_original |-> raw,
                                           related_sanitized |-> rel,
                                           rank |-> Len(out) + 1])
                  IN  IF Len(out2) >= n THEN out2
                      ELSE ExpandLoop(Tail(sugg), sidx, san, n, out2)

\* range(max(1, retries))
MaxAttempts == IF retries >= 1 THEN retries ELSE 1

Request(h) == [e |-> "req", host |-> h, call |-> seedNo, d |-> 0]

Sleep(why, dur) == [e |-> why, host |-> "", call |-> seedNo, d |-> dur]

\* the replies of the suggestion service: the string leaves of a good reply
Replies == {<<>>, << <<"b">> >>, << <<"a">>, <<"b">>, <<"a">> >>}

AllIdle ==
    /\ df_sanitized = <<>>
    /\ retries = 0
    /\ sleep_sec = 0
    /\ seedNo = 0
    /\ attempts = 0
    /\ last_err = "none"
    /\ fetched = <<>>
    /\ attemptLog = <<>>
    /\ all_rows = <<>>
    /\ warnings = <<>>
    /\ net_trace = <<>>
    /\ eaPc = "off"

\* main(), lines 1034-1043
AllInit ==
    /\ df_sanitized \in SeqsUpTo({<<>>, <<"a">>}, MaxSeeds)
    /\ retries \in 0..MaxRetries
    /\ sleep_sec \in {0, 7}
    /\ seedNo = 1
    /\ attempts = 0
    /\ last_err = "none"
    /\ fetched = <<>>
    /\ attemptLog = <<>>
    /\ all_rows = <<>>
    /\ warnings = <<>>
    /\ net_trace = <<>>
    /\ eaPc = "seed"

\* expand_for_seed, lines 669-670: nothing is fetched for an empty seed
EaEmptySeed ==
    /\ eaPc = "seed"
    /\ seedNo <= Len(df_sanitized)
    /\ df_sanitized[seedNo] = <<>>
    /\ eaPc' = "pace"
    /\ UNCHANGED <<df_sanitized, retries, sleep_sec, seedNo, attempts, last_err,
                   fetched, attemptLog, all_rows, warnings, net_trace>>
    /\ UNCHANGED <<sanVars, wgtVars, tokVars, fetchVars, scoreVars, lexVars, expVars, ccVars, colVars, canVars>>

\* expand_for_seed, line 672: fetch_naver_suggest is called
EaCallFetch ==
    /\ eaPc = "seed"
    /\ seedNo <= Len(df_sanitized)
    /\ df_sanitized[seedNo] # <<>>
    /\ attempts' = 0
    /\ last_err' = "none"
    /\ eaPc' = "attempt"
    /\ UNCHANGED <<df_sanitized, retries, sleep_sec, seedNo, fetched, attemptLog,
                   all_rows, warnings, net_trace>>
    /\ UNCHANGED <<sanVars, wgtVars, tokVars, fetchVars, scoreVars, lexVars, expVars, ccVars, colVars, canVars>>

\* fetch_naver_suggest, lines 623-640: the request is answered with a good
\* reply; the candidates are returned and expand_for_seed makes its rows
AttemptOk ==
    /\ eaPc = "attempt"
    /\ attempts < MaxAttempts
    /\ \E reply \in Replies :
          LET got == fetch_naver_suggest(reply)
          IN  /\ fetched' = Append(fetched, got)
              /\ all_rows' = all_rows \o ExpandLoop(got, seedNo - 1, df_sanitized[seedNo],
                                                   MaxEach, <<>>)
    /\ attempts' = attempts + 1
    /\ attemptLog' = Append(attemptLog, [seed |-> seedNo, n |-> attempts + 1, failed |-> FALSE])
    /\ net_trace' = Append(net_trace, Request("suggest"))
    /\ eaPc' = "pace"
    /\ UNCHANGED <<df_sanitized, retries, sleep_sec, seedNo, last_err, warnings>>
    /\ UNCHANGED <<sanVars, wgtVars, tokVars, fetchVars, scoreVars, lexVars, expVars, ccVars, colVars, canVars>>

\* the same step with the exception of the request not caught
AttemptFailsMutRaise ==
    /\ eaPc = "attempt"
    /\ attempts < MaxAttempts
    /\ \E err \in {"http", "exc", "badjson"} :
          /\ last_err' = err
          /\ eaPc' = IF err = "exc" THEN "raised" ELSE eaPc
    /\ attempts' = attempts + 1
    /\ net_trace' = net_trace \o <<Request("suggest"), Sleep("retry", sleep_sec)>>
    /\ UNCHANGED <<df_sanitized, retries, sleep_sec, seedNo, fetched, attemptLog,
                   all_rows, warnings>>
    /\ UNCHANGED <<sanVars, wgtVars, tokVars, fetchVars, scoreVars, lexVars, expVars, ccVars, colVars, canVars>>

\* fetch_naver_suggest, lines 624-644: the request raises, is answered with a
\* non-OK status, or its body is not JSON; the error is kept and the loop sleeps
AttemptFails ==
    /\ eaPc = "attempt"
    /\ attempts < MaxAttempts
    /\ \E err \in {"http", "exc", "badjson"} : last_err' = err
    /\ attempts' = attempts + 1
    /\ net_trace' = net_trace \o <<Request("suggest"), Sleep("retry", sleep_sec)>>
    /\ UNCHANGED <<df_sanitized, retries, sleep_sec, seedNo, fetched, attemptLog,
                   all_rows, warnings, eaPc>>
    /\ UNCHANGED <<sanVars, wgtVars, tokVars, fetchVars, scoreVars, lexVars, expVars, ccVars, colVars, canVars>>

\* fetch_naver_suggest, lines 645-651: the attempts are used up; a warning is
\* printed and [] is returned
FetchGivesUp ==
    /\ eaPc = "attempt"
    /\ attempts >= MaxAttempts
    /\ fetched' = Append(fetched, <<>>)
    /\ attemptLog' = Append(attemptLog, [seed |-> seedNo, n |-> attempts, failed |-> TRUE])
    /\ warnings' = IF last_err # "none" THEN Append(warnings, seedNo) ELSE warnings
    /\ eaPc' = "pace"
    /\ UNCHANGED <<df_sanitized, retries, sleep_sec, seedNo, attempts, last_err,
                   all_rows, net_trace>>
    /\ UNCHANGED <<sanVars, wgtVars, tokVars, fetchVars, scoreVars, lexVars, expVars, ccVars, colVars, canVars>>

\* expand_all, line 732: the delay after a seed
EaPace ==
    /\ eaPc = "pace"
    /\ net_trace' = Append(net_trace, Sleep("pace", sleep_sec))
    /\ seedNo' = seedNo + 1
    /\ eaPc' = "seed"
    /\ UNCHANGED <<df_sanitized, retries, sleep_sec, attempts, last_err, fetched,
                   attemptLog, all_rows, warnings>>
    /\ UNCHANGED <<sanVars, wgtVars, tokVars, fetchVars, scoreVars, lexVars, expVars, ccVars, colVars, canVars>>

\* expand_all, line 733: every row has been expanded
EaReturn ==
    /\ eaPc = "seed"
    /\ seedNo > Len(df_sanitized)
    /\ eaPc' = "done"
    /\ UNCHANGED <<df_sanitized, retries, sleep_sec, seedNo, attempts, last_err,
                   fetched, attemptLog, all_rows, warnings, net_trace>>
    /\ UNCHANGED <<sanVars, wgtVars, tokVars, fetchVars, scoreVars, lexVars, expVars, ccVars, colVars, canVars>>

AllNext ==
    \/ EaEmptySeed
    \/ EaCallFetch
    \/ AttemptOk
    \/ AttemptFails
    \/ FetchGivesUp
    \/ EaPace
    \/ EaReturn

(***************************************************************************)
(* Competition stage of the main program: collect_competition with the     *)
(* attempts of get_search_count_coupang and get_search_count_naver.        *)
(***************************************************************************)
CcRequest(h) == [e |-> "req", host |-> h, call |-> kwNo, d |-> 0]

CcSleep(why) == [e |-> why, host |-> "", call |-> kwNo, d |-> cc_sleep]

\* the lookup that follows the one at pc
AfterLookup(pc) == IF pc = "coupang" /\ cc_mode = "both" THEN "naver" ELSE "row"

CcIdle ==
    /\ expanded_kws = <<>>
    /\ cc_mode = "both"
    /\ cc_retries = 0
    /\ cc_sleep = 0
    /\ kwNo = 0
    /\ cc_attempts = 0
    /\ cpn = NoCount
    /\ nav = NoCount
    /\ comp_rows = <<>>
    /\ cc_trace = <<>>
    /\ ccPc = "off"

\* main(): the call of collect_competition
CcInit ==
    /\ expanded_kws \in SeqsUpTo({"", "k1", "k2"}, MaxKws)
    /\ cc_mode \in {"both", "coupang", "naver"}
    /\ cc_retries \in 0..MaxRetries
    /\ cc_sleep \in {0, 7}
    /\ kwNo = 1
    /\ cc_attempts = 0
    /\ cpn = NoCount
    /\ nav = NoCount
    /\ comp_rows = <<>>
    /\ cc_trace = <<>>
    /\ ccPc = "kw"

\* lines 814-816: a blank keyword is skipped
CcSkipBlank ==
    /\ ccPc = "kw"
    /\ kwNo <= Len(expanded_kws)
    /\ expanded_kws[kwNo] = ""
    /\ kwNo' = kwNo + 1
    /\ UNCHANGED <<expanded_kws, cc_mode, cc_retries, cc_sleep, cc_attempts, cpn, nav,
                   comp_rows, cc_trace, ccPc>>
    /\ UNCHANGED <<sanVars, wgtVars, tokVars, fetchVars, scoreVars, lexVars, expVars, allVars, colVars, canVars>>

\* lines 817-822: the lookups of a keyword start
CcStartKw ==
    /\ ccPc = "kw"
    /\ kwNo <= Len(expanded_kws)
    /\ expanded_kws[kwNo] # ""
    /\ cpn' = NoCount
    /\ nav' = NoCount
    /\ cc_attempts' = 0
    /\ ccPc' = IF cc_mode \in {"both", "coupang"} THEN "coupang" ELSE "naver"
    /\ UNCHANGED <<expanded_kws, cc_mode, cc_retries, cc_sleep, kwNo, comp_rows, cc_trace>>
    /\ UNCHANGED <<sanVars, wgtVars, tokVars, fetchVars, scoreVars, lexVars, expVars, allVars, colVars, canVars>>

\* get_search_count_coupang / get_search_count_naver: the request is answered
\* and a count is found in the page; the count is returned at once
CountFound ==
    /\ ccPc \in {"coupang", "naver"}
    /\ cc_attempts < (IF cc_retries >= 1 THEN cc_retries ELSE 1)
    /\ cc_trace' = Append(cc_trace, CcRequest(ccPc))
    /\ IF ccPc = "coupang"
       THEN cpn' \in {0, 2} /\ nav' = nav
       ELSE nav' \in {0, 5} /\ cpn' = cpn
    /\ cc_attempts' = 0
    /\ ccPc' = AfterLookup(ccPc)
    /\ UNCHANGED <<expanded_kws, cc_mode, cc_retries, cc_sleep, kwNo, comp_rows>>
    /\ UNCHANGED <<sanVars, wgtVars, tokVars, fetchVars, scoreVars, lexVars, expVars, allVars, colVars, canVars>>

\* the request raises, or the page is not OK or holds no count: the loop sleeps
CountMissed ==
    /\ ccPc \in {"coupang", "naver"}
    /\ cc_attempts < (IF cc_retries >= 1 THEN cc_retries ELSE 1)
    /\ cc_trace' = cc_trace \o <<CcRequest(ccPc), CcSleep("retry")>>
    /\ cc_attempts' = cc_attempts + 1
    /\ UNCHANGED <<expanded_kws, cc_mode, cc_retries, cc_sleep, kwNo, cpn, nav,
                   comp_rows, ccPc>>
    /\ UNCHANGED <<sanVars, wgtVars, tokVars, fetchVars, scoreVars, lexVars, expVars, allVars, colVars, canVars>>

\* the attempts are used up: None is returned
CountGivesUp ==
    /\ ccPc \in {"coupang", "naver"}
    /\ cc_attempts >= (IF cc_retries >= 1 THEN cc_retries ELSE 1)
    /\ cc_attempts' = 0
    /\ ccPc' = AfterLookup(ccPc)
    /\ UNCHANGED <<expanded_kws, cc_mode, cc_retries, cc_sleep, kwNo, cpn, nav,
                   comp_rows, cc_trace>>
    /\ UNCHANGED <<sanVars, wgtVars, tokVars, fetchVars, scoreVars, lexVars, expVars, allVars, colVars, canVars>>

\* lines 826-840: the row is appended and the loop sleeps
CcAppendRow ==
    /\ ccPc = "row"
    /\ comp_rows' = Append(comp_rows, [kw |-> expanded_kws[kwNo], cpn |-> cpn, nav |-> nav])
    /\ cc_trace' = Append(cc_trace, CcSleep("pace"))
    /\ kwNo' = kwNo + 1
    /\ ccPc' = "kw"
    /\ UNCHANGED <<expanded_kws, cc_mode, cc_retries, cc_sleep, cc_attempts, cpn, nav>>
    /\ UNCHANGED <<sanVars, wgtVars, tokVars, fetchVars, scoreVars, lexVars, expVars, allVars, colVars, canVars>>

\* line 841
CcReturn ==
    /\ ccPc = "kw"
    /\ kwNo > Len(expanded_kws)
    /\ ccPc' = "done"
    /\ UNCHANGED <<expanded_kws, cc_mode, cc_retries, cc_sleep, kwNo, cc_attempts, cpn, nav,
                   comp_rows, cc_trace>>
    /\ UNCHANGED <<sanVars, wgtVars, tokVars, fetchVars, scoreVars, lexVars, expVars, allVars, colVars, canVars>>

CcNext ==
    \/ CcSkipBlank
    \/ CcStartKw
    \/ CountFound
    \/ CountMissed
    \/ CountGivesUp
    \/ CcAppendRow
    \/ CcReturn

(***************************************************************************)
(* Column inference: _detect_col_fuzzy, _guess_keyword_col and             *)
(* _guess_seed_col of compute_scores.py and of fetch_competition_counts.py, *)
(* _load_base and the source choice of _iter_input_rows.  A table is       *)
(* [exists, cols, rows], a row one cell per column.  The candidate lists   *)
(* are the code's, without the four Korean aliases.                        *)
(***************************************************************************)
\* the fuzzy terms that occur in a lower-cased column name of the model
SubTerms(low) ==
    IF low = "keyword" THEN {"keyword"}
    ELSE IF low = "term" THEN {"term"}
    ELSE IF low = "my_query" THEN {"query"}
    ELSE IF low = "source" THEN {"source"}
    ELSE IF low \in {"seed", "seed_index", "seed_original", "seed_sanitized"} THEN {"seed"}
    ELSE IF low = "parent_id" THEN {"parent"}
    ELSE {}

\* _detect_col_fuzzy(cols, substrings): the first column, in header order,
\* whose lower-cased name contains one of the substrings
RECURSIVE _detect_col_fuzzy(_, _)
_detect_col_fuzzy(cols, substrings) ==
    IF cols = <<>> THEN None
    ELSE IF SubTerms(LowerName(Head(cols))) \cap Range(substrings) # {}
         THEN Head(cols)
         ELSE _detect_col_fuzzy(Tail(cols), substrings)

\* the cells of column j, as the heuristic reads them: in the score
\* computation an empty cell is NaN and astype(str) makes it "nan"
ColumnValues(tbl, j, nanText) ==
    [i \in DOMAIN tbl.rows |->
        IF nanText /\ tbl.rows[i][j] = "" THEN "nan" ELSE tbl.rows[i][j]]

RECURSIVE SumLen(_)
SumLen(vals) == IF vals = <<>> THEN 0 ELSE Len(Head(vals)) + SumLen(Tail(vals))

\* avg_len * (0.5 + 0.5 * fill), plus 0.05 * uniq in the score computation
HeuristicScore(values, non_empty, withUniq) ==
    LET avg_len == Q(SumLen(non_empty), Len(non_empty))
        fill == Q(Len(non_empty), IF Len(values) >= 1 THEN Len(values) ELSE 1)
        base == Mul(avg_len, Add(Q(1, 2), Mul(Q(1, 2), fill)))
    IN  IF withUniq
        THEN Add(base, Mul(Q(1, 20), Fin(Cardinality(Range(non_empty)))))
        ELSE base

\* the loop of the heuristic over the columns from position j on
RECURSIVE HeuristicLoop(_, _, _, _, _, _)
HeuristicLoop(tbl, j, blacklist, withUniq, best_col, best_score) ==
    IF j > Len(tbl.cols) THEN best_col
    ELSE LET name == tbl.cols[j]
             values == ColumnValues(tbl, j, withUniq)
             non_empty == SelectSeq(values, LAMBDA v : v # "")
         IN  IF LowerName(name) \in blacklist \/ non_empty = <<>>
             THEN HeuristicLoop(tbl, j + 1, blacklist, withUniq, best_col, best_score)
             ELSE LET score == HeuristicScore(values, non_empty, withUniq)
                  IN  IF Less(best_score, score)
                      THEN HeuristicLoop(tbl, j + 1, blacklist, withUniq, name, score)
                      ELSE HeuristicLoop(tbl, j + 1, blacklist, withUniq, best_col, best_score)

\* compute_scores.py
ScStrong ==
    <<"keyword", "keyword_sanitized", "related_keyword", "expanded_keyword", "expanded",
      "expansion", "suggest", "suggestion", "candidate", "variant", "term", "query",
      "kw", "text", "title", "source">>

ScFuzzy == <<"keyword", "query", "term", "title", "suggest", "expand", "source">>

ScBlacklist ==
    {"seed", "seed_index", "category", "cat", "idx", "id", "index", "group", "count", "rank"}

\* the same with the fuzzy layer consulted before the exact one
_guess_keyword_colMutFuzzyFirst(tbl) ==
    IF _detect_col_fuzzy(tbl.cols, ScFuzzy) # None THEN _detect_col_fuzzy(tbl.cols, ScFuzzy)
    ELSE IF _detect_col(tbl.cols, ScStrong) # None
         THEN _detect_col(tbl.cols, ScStrong)
         ELSE HeuristicLoop(tbl, 1, ScBlacklist, TRUE, None, Fin(-1))

_guess_keyword_col(tbl) ==
    IF _detect_col(tbl.cols, ScStrong) # None THEN _detect_col(tbl.cols, ScStrong)
    ELSE IF _detect_col_fuzzy(tbl.cols, ScFuzzy) # None
         THEN _detect_col_fuzzy(tbl.cols, ScFuzzy)
         ELSE HeuristicLoop(tbl, 1, ScBlacklist, TRUE, None, Fin(-1))

ScSeedCands == <<"seed", "seed_index", "root", "parent", "group", "source_seed", "seed_name">>

SeedFuzzy == <<"seed", "parent", "root", "group">>

_guess_seed_col(tbl) ==
    IF _detect_col(tbl.cols, ScSeedCands) # None THEN _detect_col(tbl.cols, ScSeedCands)
    ELSE _detect_col_fuzzy(tbl.cols, SeedFuzzy)

\* fetch_competition_counts.py
FtStrong ==
    <<"keyword", "keyword_sanitized", "related_keyword", "expanded_keyword", "expansion",
      "suggest", "candidate", "term", "query", "kw", "text", "title">>

FtFuzzy == <<"keyword", "query", "term", "title">>

FtBlacklist == {"seed", "category", "cat", "idx", "id", "index", "group", "count"}

_guess_keyword_col_fetch(tbl) ==
    IF tbl.rows = <<>> THEN None
    ELSE IF _detect_col(tbl.cols, FtStrong) # None THEN _detect_col(tbl.cols, FtStrong)
    ELSE IF _detect_col_fuzzy(tbl.cols, FtFuzzy) # None
         THEN _detect_col_fuzzy(tbl.cols, FtFuzzy)
         ELSE HeuristicLoop(tbl, 1, FtBlacklist, FALSE, None, Fin(-1))

FtSeedCands == <<"seed", "root", "parent", "group", "source_seed", "seed_name">>

_guess_seed_col_fetch(tbl) ==
    IF tbl.rows = <<>> THEN None
    ELSE IF _detect_col(tbl.cols, FtSeedCands) # None THEN _detect_col(tbl.cols, FtSeedCands)
    ELSE _detect_col_fuzzy(tbl.cols, SeedFuzzy)

\* _load_base: the first existing source with a keyword column; SystemExit
\* with the columns of the sources tried when there is none
RECURSIVE LoadBaseLoop(_, _)
LoadBaseLoop(sources, tried_info) ==
    IF sources = <<>> THEN [status |-> "fatal", src |-> None, kw_col |-> None,
                            seed_col |-> None, tried |-> tried_info]
    ELSE LET src == Head(sources)
         IN  IF ~src.tbl.exists THEN LoadBaseLoop(Tail(sources), tried_info)
             ELSE IF _guess_keyword_col(src.tbl) # None
                  THEN [status |-> "ok", src |-> src.name,
                        kw_col |-> _guess_keyword_col(src.tbl),
                        seed_col |-> _guess_seed_col(src.tbl), tried |-> tried_info]
                  ELSE LoadBaseLoop(Tail(sources),
                                    Append(tried_info, <<src.name, src.tbl.cols>>))

_load_base(expanded, sanitized) ==
    LoadBaseLoop(<<[name |-> "expanded", tbl |-> expanded],
                   [name |-> "sanitized", tbl |-> sanitized]>>, <<>>)

\* _iter_input_rows, lines 263-278: the source is the expanded CSV if it
\* exists, else the sanitized CSV; no source or no data row gives no pairs;
\* a source without a keyword column is fatal
InputSource(expanded, sanitized) ==
    LET src == IF expanded.exists THEN [name |-> "expanded", tbl |-> expanded]
               ELSE IF sanitized.exists THEN [name |-> "sanitized", tbl |-> sanitized]
               ELSE [name |-> None, tbl |-> expanded]
    IN  IF src.name = None \/ src.tbl.rows = <<>>
        THEN [status |-> "nothing", src |-> src.name, kw_col |-> None, seed_col |-> None]
        ELSE IF _guess_keyword_col_fetch(src.tbl) = None
             THEN [status |-> "fatal", src |-> src.name, kw_col |-> None,
                   seed_col |-> _guess_seed_col_fetch(src.tbl)]
             ELSE [status |-> "ok", src |-> src.name,
                   kw_col |-> _guess_keyword_col_fetch(src.tbl),
                   seed_col |-> _guess_seed_col_fetch(src.tbl)]

\* the tables of the model
ColPool == {"Keyword", "term", "my_query", "Seed", "parent_id", "id", "name"}

CellPool == {"", "ab", "abcd"}

AbsentTbl == [exists |-> FALSE, cols |-> <<>>, rows |-> <<>>]

DrawnTables ==
    {[exists |-> TRUE, cols |-> c, rows |-> r] :
        <<c, r>> \in UNION {{<<cc, rr>> : rr \in {<<>>} \cup {<<row>> : row \in [1..Len(cc) -> CellPool]}} :
                           cc \in {x \in SeqsUpTo(ColPool, MaxCols) : x # <<>> /\ IsInjective(x)}}}

\* the columns expand_for_seed writes (lines 691-701), with one record
ExpandedColumns ==
    <<"seed_index", "seed_original", "seed_sanitized", "related_original",
      "related_sanitized", "source", "rank">>

ExpansionTables ==
    {[exists |-> TRUE, cols |-> ExpandedColumns,
      rows |-> << <<"0", so, "ab", rel, rel, "naver_suggest", "1">> >>] :
        so \in {"ab", "ab!"}, rel \in {"abcd", "abcd efgh ijkl mnop"}}

SanitizedTables ==
    {AbsentTbl,
     [exists |-> TRUE, cols |-> <<"keyword", "keyword_sanitized">>, rows |-> << <<"ab!", "ab">> >>],
     [exists |-> TRUE, cols |-> <<"id", "count">>, rows |-> << <<"ab", "ab">> >>]}

NoResult == [status |-> "none", src |-> None, kw_col |-> None, seed_col |-> None]

ColIdle ==
    /\ expandedTbl = AbsentTbl
    /\ sanitizedTbl = AbsentTbl
    /\ sc_base = NoResult
    /\ ft_input = NoResult
    /\ colPc = "off"

ColInit ==
    /\ expandedTbl \in {AbsentTbl} \cup DrawnTables \cup ExpansionTables
    /\ sanitizedTbl \in SanitizedTables
    /\ sc_base = NoResult
    /\ ft_input = NoResult
    /\ colPc = "start"

\* compute_scores: base, base_src, kw_col, seed_col = _load_base(...)
ScLoadBase ==
    /\ colPc = "start"
    /\ sc_base' = _load_base(expandedTbl, sanitizedTbl)
    /\ colPc' = "scored"
    /\ UNCHANGED <<expandedTbl, sanitizedTbl, ft_input>>
    /\ UNCHANGED <<sanVars, wgtVars, tokVars, fetchVars, scoreVars, lexVars, expVars, allVars, ccVars, canVars>>

\* fetch_and_append: to_process, seed_col, kw_col = _iter_input_rows(...)
FtIterInput ==
    /\ colPc = "scored"
    /\ ft_input' = InputSource(expandedTbl, sanitizedTbl)
    /\ colPc' = "fetched"
    /\ UNCHANGED <<expandedTbl, sanitizedTbl, sc_base>>
    /\ UNCHANGED <<sanVars, wgtVars, tokVars, fetchVars, scoreVars, lexVars, expVars, allVars, ccVars, canVars>>

ColNext ==
    \/ ScLoadBase
    \/ FtIterInput

(***************************************************************************)
(* The Sanitizer's specification: sanitize_text is called on a text, and   *)
(* then on the text it returned, with the same lexicon.                    *)
(***************************************************************************)
\* the prohibited words the lists are drawn from ("" is filtered by the code)
WordPool ==
    {<<>>, <<"a", "b">>, <<"b", "a">>, <<"a", " ", "b">>, <<"a", "b", " ", "a">>}

SymbolLists == {<<>>, <<"!">>}

NoDetail == [original |-> <<>>, sanitized |-> <<>>, removed_words |-> <<>>,
             removed_symbols |-> <<>>, changed |-> FALSE]

SanIdle ==
    /\ text = <<>>
    /\ words = <<>>
    /\ symbols = <<>>
    /\ order = <<>>
    /\ sanPc = "idle"
    /\ detail = NoDetail
    /\ clean2 = <<>>

SanInit ==
    /\ text \in SeqsUpTo(Chars, MaxLen)
    /\ words \in SeqsUpTo(WordPool, MaxWords)
    /\ symbols \in SymbolLists
    /\ order \in _sorted_desc_by_len(words)
    /\ sanPc = "start"
    /\ detail = NoDetail
    /\ clean2 = <<>>

Sanitize ==
    /\ sanPc = "start"
    /\ detail' = sanitize_text(text, order, symbols)
    /\ sanPc' = "once"
    /\ UNCHANGED <<text, words, symbols, order, clean2>>
    /\ UNCHANGED <<wgtVars, tokVars, fetchVars, scoreVars, lexVars, expVars, allVars, ccVars, colVars, canVars>>

Resanitize ==
    /\ sanPc = "once"
    /\ clean2' = sanitize_text(detail.sanitized, order, symbols).sanitized
    /\ sanPc' = "twice"
    /\ UNCHANGED <<text, words, symbols, order, detail>>
    /\ UNCHANGED <<wgtVars, tokVars, fetchVars, scoreVars, lexVars, expVars, allVars, ccVars, colVars, canVars>>

SanNext == Sanitize \/ Resanitize


(***************************************************************************)
(* C3  Sanitizer idempotence: sanitize_text applied to the output of       *)
(* sanitize_text returns that output unchanged, for every text and every   *)
(* fixed lexicon.                                                          *)
(***************************************************************************)
C3_Idempotent == sanPc = "twice" => clean2 = detail.sanitized

(***************************************************************************)
(* C4  Longest-first removal: when the lexicon holds a prohibited phrase   *)
(* and a shorter prohibited word that is a substring of it, the output of  *)
(* sanitize_text contains neither the phrase nor the shorter word          *)
(* (case-insensitively), for every input text.                             *)
(***************************************************************************)
PhraseAndShorter(p, w) ==
    /\ p \in Range(order) /\ w \in Range(order)
    /\ Len(w) < Len(p)
    /\ ContainsCI(p, w)

C4_NeitherSurvives ==
    sanPc = "once" =>
        \A p, w \in Range(order) :
            PhraseAndShorter(p, w) =>
                /\ ~ContainsCI(detail.sanitized, p)
                /\ ~ContainsCI(detail.sanitized, w)

(***************************************************************************)
(* What the claims say about the weights, stated from the sheet and the    *)
(* command line, apart from the resolver's own definitions.                *)
(***************************************************************************)
One == Fin(1)

PairSum(p) == Add(p.W_intent, p.W_competition)

\* a pair whose sum is a positive number
PositiveSum(a, b) ==
    /\ IsNum(a) /\ IsNum(b)
    /\ Add(a, b).k = "fin" /\ Add(a, b).n > 0

\* the rows of the key/value block: those above its first fully blank row
BlockEnd ==
    LET blank == {i \in DOMAIN sheet.kv :
                    sheet.kv[i].key = "" /\ sheet.kv[i].val.k = "none"}
    IN  IF blank = {} THEN Len(sheet.kv) + 1
        ELSE CHOOSE i \in blank : \A j \in blank : i <= j

\* the cell the spreadsheet gives for a key: that of the last row of the
\* block with this key, NoVal when the sheet, the block or the key is missing
\* or the cell holds no number
SheetCell(key) ==
    LET rows == {i \in 1..(BlockEnd - 1) : sheet.kv[i].key = key}
        last == CHOOSE i \in rows : \A j \in rows : j <= i
    IN  IF ~sheet.present \/ ~sheet.kvHeader \/ rows = {} THEN NoVal
        ELSE IF IsNum(sheet.kv[last].val) THEN sheet.kv[last].val
        ELSE NoVal

\* the cell of any row with this key, blank rows not ending the table
\* (the table walk of the score computation)
TableCell(key) ==
    LET rows == {i \in DOMAIN sheet.kv :
                    sheet.kv[i].key = key /\ sheet.kv[i].val.k \in {"fin", "inf"}}
        last == CHOOSE i \in rows : \A j \in rows : j <= i
    IN  IF ~sheet.kvHeader \/ rows = {} THEN NoVal ELSE sheet.kv[last].val

OrElse(x, y) == IF x.k # "none" THEN x ELSE y

\* "divided by its sum; a sum that is not finite or <= 0 gives the defaults"
Normalized(a, b) ==
    LET t == Add(a, b)
    IN  IF t.k # "fin" \/ t.n <= 0 THEN DEFAULT_WEIGHTS
        ELSE [W_intent |-> Div(a, t), W_competition |-> Div(b, t)]

RaisedToZero(x) == IF x.k = "fin" /\ x.n < 0 THEN Fin(0) ELSE x

\* the spreadsheet tier as the main program resolves it
SheetTier ==
    IF ~sheet.present \/ ~sheet.kvHeader THEN DEFAULT_WEIGHTS
    ELSE Normalized(
            RaisedToZero(OrElse(SheetCell("W_intent"), DEFAULT_WEIGHTS.W_intent)),
            RaisedToZero(OrElse(SheetCell("W_competition"),
                                DEFAULT_WEIGHTS.W_competition)))

(***************************************************************************)
(* C8  Weight normalization: for all weight inputs (command overrides and  *)
(* spreadsheet values) whose sum is a positive number, the resolved pair   *)
(* sums to 1: the pair returned by _parse_weights_block, the pair returned *)
(* by apply_precedence and the pair of the score computation's reader.     *)
(***************************************************************************)
C8_WeightsSumToOne ==
    /\ (/\ wPc \in {"parsed", "resolved"}
        /\ sheet.present /\ sheet.kvHeader
        /\ PositiveSum(
              RaisedToZero(OrElse(SheetCell("W_intent"), DEFAULT_WEIGHTS.W_intent)),
              RaisedToZero(OrElse(SheetCell("W_competition"),
                                  DEFAULT_WEIGHTS.W_competition))))
       => PairSum(weights_excel) = One
    /\ (/\ wPc = "resolved"
        /\ PositiveSum(OrElse(cliW.W_intent, weights_excel.W_intent),
                       OrElse(cliW.W_competition, weights_excel.W_competition)))
       => PairSum(eff_weights) = One
    /\ (/\ rdPc = "read"
        /\ PositiveSum(TableCell("W_intent"), TableCell("W_competition")))
       => PairSum(rd_weights) = One

\* all three resolvers have normalised a pair that did not sum to 1
C8_Witness ==
    /\ wPc = "resolved" /\ rdPc = "read"
    /\ SheetCell("W_intent") = Fin(1) /\ SheetCell("W_competition") = Fin(3)
    /\ weights_excel = [W_intent |-> Q(1, 4), W_competition |-> Q(3, 4)]
    /\ cliW = [W_intent |-> Fin(3), W_competition |-> Fin(1)]
    /\ eff_weights = [W_intent |-> Q(3, 4), W_competition |-> Q(1, 4)]
    /\ rd_weights = [W_intent |-> Q(1, 4), W_competition |-> Q(3, 4)]

(***************************************************************************)
(* C9  Weight precedence, as claimed: per axis the value used is the       *)
(* command override if present, else the spreadsheet's value, else the     *)
(* built-in default; the pair is divided by its sum, and a sum that is not *)
(* finite or <= 0 gives the built-in defaults on both axes.                *)
(***************************************************************************)
C9_Original ==
    wPc = "resolved" =>
        eff_weights =
            Normalized(
                OrElse(cliW.W_intent,
                       OrElse(SheetCell("W_intent"), DEFAULT_WEIGHTS.W_intent)),
                OrElse(cliW.W_competition,
                       OrElse(SheetCell("W_competition"),
                              DEFAULT_WEIGHTS.W_competition)))

(***************************************************************************)
(* C9  Weight precedence, amended: the spreadsheet tier is resolved first, *)
(* on its own: per axis the sheet's cell raised to 0 when negative, else   *)
(* the built-in default, the pair divided by its sum (the defaults when    *)
(* the sum is not finite or <= 0).  Then per axis the value used is the    *)
(* command override if present, else the spreadsheet tier's entry, and     *)
(* that pair is divided by its sum, with the same fallback to the defaults.*)
(***************************************************************************)
C9_Precedence ==
    /\ wPc \in {"parsed", "resolved"} => weights_excel = SheetTier
    /\ wPc = "resolved" =>
          eff_weights =
              Normalized(OrElse(cliW.W_intent, SheetTier.W_intent),
                         OrElse(cliW.W_competition, SheetTier.W_competition))

\* one axis is overridden on the command line, the other comes from a sheet
\* whose pair does not sum to 1
C9_Witness ==
    /\ wPc = "resolved"
    /\ cliW = [W_intent |-> Fin(1), W_competition |-> NoVal]
    /\ SheetCell("W_intent") = NoVal /\ SheetCell("W_competition") = Fin(3)
    /\ eff_weights.W_intent # Q(1, 4)
    /\ PairSum(eff_weights) = One

(***************************************************************************)
(* C10  Token precedence: whenever a command-line token string is          *)
(* supplied, the effective token table holds only tokens taken from that   *)
(* string (no spreadsheet token survives); whenever no token resolves from *)
(* the command line or the spreadsheet, the effective token table used for *)
(* scoring is the built-in token table.                                    *)
(***************************************************************************)
\* the "tok:w" parts of the --tokens string
CliPairs ==
    {<<cliTokens.parts[i].tok, cliTokens.parts[i].w>> : i \in
        {j \in DOMAIN cliTokens.parts : cliTokens.parts[j].kind = "pair"}}

\* the rows of the token block that are enabled with a weight > 0
SheetResolves ==
    /\ tokSheet.present /\ tokSheet.header
    /\ \E i \in DOMAIN tokSheet.rows :
          /\ \A j \in 1..i : ~(/\ tokSheet.rows[j].tok = ""
                               /\ tokSheet.rows[j].w.k = "none"
                               /\ tokSheet.rows[j].en = "")
          /\ tokSheet.rows[i].tok # ""
          /\ tokSheet.rows[i].en \in {"", "true"}
          /\ Positive(tokSheet.rows[i].w)

CliResolves == \E pr \in CliPairs : pr[1] # "" /\ Positive(pr[2])

\* the built-in table as the list the score computation works with
IsBuiltInTable(lst) ==
    /\ {lst[i][1] : i \in DOMAIN lst} = DOMAIN DEFAULT_TOKENS
    /\ \A i \in DOMAIN lst : lst[i][2] = DEFAULT_TOKENS[lst[i][1]]

C10_TokenPrecedence ==
    /\ (tPc = "resolved" /\ cliTokens.given) =>
          \A t \in DOMAIN eff_tokens : <<t, eff_tokens[t]>> \in CliPairs
    /\ (tPc = "resolved" /\ ~CliResolves /\ ~SheetResolves) =>
          eff_tokens = DEFAULT_TOKENS
    /\ (rtPc = "read" /\ ~SheetResolves) => IsBuiltInTable(rd_tokens)

(***************************************************************************)
(* C13 (lexicon merge): merge_prohibited returns the defaults followed by  *)
(* the extras, every entry trimmed and whitespace-normalised, no two       *)
(* entries equal after case and whitespace normalisation, first-seen order *)
(* kept; merging the result again with the same extras changes nothing.    *)
(***************************************************************************)
\* lst without its later repeats
RECURSIVE FirstSeen(_)
FirstSeen(lst) ==
    IF lst = <<>> THEN <<>>
    ELSE LET init == FirstSeen(Take(lst, Len(lst) - 1))
         IN  IF lst[Len(lst)] \in Range(init) THEN init ELSE Append(init, lst[Len(lst)])

Normalised(x) == Lower(_clean_term(x))

MergedListOk(m, a, b) ==
    /\ m = FirstSeen(CleanedNonEmpty(a \o b))
    /\ \A i \in DOMAIN m : m[i] = _clean_term(m[i]) /\ m[i] # <<>>
    /\ \A i, j \in DOMAIN m : i # j => Normalised(m[i]) # Normalised(m[j])

C13_LexiconMerge ==
    /\ lexPc \in {"merged", "again"} =>
          /\ MergedListOk(merged_proh.words, base_proh.words, extra_proh.words)
          /\ MergedListOk(merged_proh.symbols, base_proh.symbols, extra_proh.symbols)
    /\ lexPc = "again" => merged_again = merged_proh

(***************************************************************************)
(* C12 (configuration resolution never raises): whatever the workbook (a   *)
(* missing file, a missing config sheet, missing blocks, unparsable        *)
(* cells), the weight resolver and the config read of the score            *)
(* computation return a weight pair and do not raise.                      *)
(***************************************************************************)
IsWeightPair(p) == IsNum(p.W_intent) /\ IsNum(p.W_competition)

C12_NeverRaises ==
    /\ wPc \in {"parsed", "resolved"} => IsWeightPair(weights_excel)
    /\ wPc = "resolved" => IsWeightPair(eff_weights)
    /\ rdPc # "raised"
    /\ rdPc = "read" => IsWeightPair(rd_weights)

(***************************************************************************)
(* C11 (token filter): every token of an effective token table (the one    *)
(* the config resolver builds and the one the score computation reads)     *)
(* comes from a row whose enabled cell is true or blank and whose weight   *)
(* is strictly greater than 0; the built-in table and the command-line     *)
(* pairs apart, no other row contributes.                                  *)
(***************************************************************************)
\* the sheet has a row for the token with this weight that is enabled (or
\* has a blank or absent enabled cell) and whose weight is > 0
FromEnabledPositiveRow(tok, w) ==
    /\ Positive(w)
    /\ \E i \in DOMAIN tokSheet.rows :
          /\ tokSheet.rows[i].tok = tok
          /\ tokSheet.rows[i].w = w
          /\ (~tokSheet.enCol \/ tokSheet.rows[i].en = "" \/ _to_bool(tokSheet.rows[i].en))

C11_ResolverFilter ==
    /\ tPc \in {"parsed", "resolved"} =>
          \/ tokens_excel = DEFAULT_TOKENS
          \/ \A t \in DOMAIN tokens_excel : FromEnabledPositiveRow(t, tokens_excel[t])
    /\ tPc = "resolved" =>
          \A t \in DOMAIN eff_tokens :
             \/ <<t, eff_tokens[t]>> \in CliPairs /\ Positive(eff_tokens[t])
             \/ t \in DOMAIN tokens_excel /\ eff_tokens[t] = tokens_excel[t]

C11_ReaderFilter ==
    rtPc = "read" =>
        \A i \in DOMAIN rd_tokens : FromEnabledPositiveRow(rd_tokens[i][1], rd_tokens[i][2])

C11_TokenFilter == C11_ResolverFilter /\ C11_ReaderFilter

(***************************************************************************)
(* Claims about the CompetitionAggregator.                                 *)
(***************************************************************************)
\* C1 (resume): when a run has finished and the aggregator is run again on
\* the same input and the same output file, the second run appends no row.
C1_ResumeAppendsNothing ==
    (runNo = 2 /\ prevEnd = "done") => appended = <<>>

\* a line of the file is complete: it has one cell per column of the header
\* the file starts with
CompleteRow(l) == l.kind = "row" /\ Len(l.cells) = Len(outFile.lines[1].cells)

\* the data rows on disk are those that were there when the run started,
\* followed by one row per key this run has written, in the order written
RetainedInOrder ==
    LET rows == DataLines(outFile.lines)
        n0 == Len(diskAtStart)
    IN  /\ Len(rows) = n0 + Len(appended)
        /\ \A i \in 1..n0 : rows[i] = diskAtStart[i]
        /\ \A i \in 1..Len(appended) :
              \E c \in CoupangCounts(site_mode), n \in NaverCounts(site_mode) :
                 rows[n0 + i] =
                    _row_dict_for_header(header, appended[i][1], appended[i][2], c, n)

\* C2 (crash safety): after an interrupt the file is a header followed only
\* by complete rows, every row written before the interrupt is on disk in
\* input order, and the next run on the same input skips the keys the
\* interrupted run wrote and appends only the others.
C2_CrashSafety ==
    /\ fPc = "interrupted" =>
          /\ outFile.lines # <<>>
          /\ outFile.lines[1].kind = "header"
          /\ \A i \in 2..Len(outFile.lines) : CompleteRow(outFile.lines[i])
          /\ RetainedInOrder
    /\ (runNo = 2 /\ prevEnd = "interrupted") =>
          /\ Range(appended) \cap Range(prevAppended) = {}
          /\ \A i \in 1..Len(to_process) :
                (i < idx /\ to_process[i] \in Range(prevAppended))
                   => to_process[i] \in Range(skippedKeys)

(***************************************************************************)
(* C14 (processed-key detection): whatever the header of the existing      *)
(* output file, the key set built before a run holds exactly the (seed,    *)
(* keyword) pair of every data row of the file, and every row a run        *)
(* appends is recognised as processed by the next run.                     *)
(***************************************************************************)
\* the cell of a row under the first column whose lower-cased name is one
\* of the names, "" when the row has no such column
CellUnder(row, names) ==
    LET hit == {i \in DOMAIN row.cols : LowerName(row.cols[i]) \in names}
    IN  IF hit = {} THEN ""
        ELSE row.cells[CHOOSE i \in hit : \A j \in hit : i <= j]

\* the (seed, keyword) pair a data row stands for
PairOfRow(row) ==
    <<StripCell(CellUnder(row, {"seed", "seed_sanitized"})),
      StripCell(CellUnder(row, {"keyword", "term", "query", "related_sanitized"}))>>

C14_KeysOfExistingFile ==
    (fPc = "loop" /\ runNo = 1) =>
        exist_keys = {PairOfRow(diskAtStart[i]) : i \in DOMAIN diskAtStart}

C14_AppendedRecognised ==
    (fPc = "loop" /\ runNo = 2) => Range(prevAppended) \subseteq exist_keys

C14_ProcessedKeys == C14_KeysOfExistingFile /\ C14_AppendedRecognised

(***************************************************************************)
(* C15 (stable header): after any run the output file begins with exactly  *)
(* one header row and every data row was written under it; the header is   *)
(* the one the file had before the run when a file existed, the default    *)
(* header otherwise; no second header is appended and no data row is       *)
(* written to a file without header.                                       *)
(***************************************************************************)
HeaderCount(lines) == Cardinality({i \in DOMAIN lines : lines[i].kind = "header"})

C15_StableHeader ==
    fPc \in {"done", "interrupted"} =>
        /\ outFile.lines # <<>>
        /\ outFile.lines[1].kind = "header"
        /\ HeaderCount(outFile.lines) = 1
        /\ \A i \in 2..Len(outFile.lines) :
              /\ outFile.lines[i].kind = "row"
              /\ outFile.lines[i].cols = outFile.lines[1].cells
        /\ IF fileAtStart.exists /\ fileAtStart.lines # <<>>
           THEN outFile.lines[1] = fileAtStart.lines[1]
           ELSE outFile.lines[1] = HeaderLine(DefaultHeader)

(***************************************************************************)
(* C16 (per-item failure isolation): when the lookup of one pair raises,   *)
(* one entry for it goes to the error log, no output row is written for    *)
(* it, and the pairs after it are still processed: a run that is not       *)
(* interrupted ends with every input pair skipped, written or logged,      *)
(* once each.                                                              *)
(***************************************************************************)
CountIn(seq, x) == Cardinality({i \in DOMAIN seq : seq[i] = x})

ErrKeys == [i \in DOMAIN errLog |-> <<errLog[i].seed, errLog[i].keyword>>]

SiteLabel == IF site_mode = "both" THEN "both" ELSE site_mode

C16_FailureIsolation ==
    (fPc = "done" /\ prevEnd = "none") =>
        /\ \A i \in DOMAIN errLog : errLog[i].site = SiteLabel
        /\ \A k \in Range(to_process) :
              CountIn(to_process, k)
                 = CountIn(ErrKeys, k) + CountIn(appended, k) + CountIn(skippedKeys, k)
        /\ Range(ErrKeys) \subseteq Range(to_process)
        /\ RetainedInOrder

\* a finished run whose first pair failed and was logged, and in which a
\* later pair was fetched and written
C16_Witness ==
    /\ fPc = "done" /\ prevEnd = "none"
    /\ Len(to_process) >= 2
    /\ errLog # <<>>
    /\ ErrKeys[1] = to_process[1]
    /\ to_process[1] \notin Range(appended)
    /\ to_process[2] \in Range(appended)

(***************************************************************************)
(* C17 (combined competition is always present): every row the aggregator  *)
(* writes carries a comp_combined value, log1p(a) + log1p(b) with a        *)
(* missing count taken as 0: never blank, 0.0 when both counts are         *)
(* missing.                                                                *)
(***************************************************************************)
\* the rows this run has written, flushed or not
WrittenRows ==
    LET rows == DataLines(outFile.lines \o outBuf)
    IN  [i \in 1..(Len(rows) - Len(diskAtStart)) |-> rows[Len(diskAtStart) + i]]

\* the text of log1p(a) + log1p(b) for the counts in the row's cells
ExpectedCombined(row) ==
    LET c == CellOf(row, "comp_coupang")
        n == CellOf(row, "comp_naver")
    IN  IF c = "2" /\ n = "5" THEN "2.8904"
        ELSE IF c = "2" THEN "1.0986"
        ELSE IF n = "5" THEN "1.7918"
        ELSE "0.0000"

C17_CombinedPresent ==
    fPc \in {"loop", "written", "done", "interrupted"} =>
        \A i \in DOMAIN WrittenRows :
            /\ CellOf(WrittenRows[i], "comp_combined") # ""
            /\ CellOf(WrittenRows[i], "comp_combined") = ExpectedCombined(WrittenRows[i])

(***************************************************************************)
(* C18 (one fetch per key): within one run every distinct (seed, keyword)  *)
(* pair is fetched at most once, also when the input holds the pair on     *)
(* several rows, and the rows the run writes never hold two rows with the  *)
(* same key.                                                               *)
(***************************************************************************)
\* the pairs the run has fetched: a fetch ends in a written row or an error row
FetchedKeys == appended \o ErrKeys

NoDuplicates(seq) == \A i, j \in DOMAIN seq : seq[i] = seq[j] => i = j

C18_OneFetchPerKey ==
    fPc \in {"done", "interrupted"} =>
        /\ NoDuplicates(FetchedKeys)
        /\ NoDuplicates(appended)

(***************************************************************************)
(* C19 (expansion selection): for every seed and every N = max_each,       *)
(* expand_for_seed returns at most N records, and they are exactly the     *)
(* first N distinct sanitized suggestions, in arrival order, that are      *)
(* non-empty and not case-insensitively equal to the sanitized seed; a     *)
(* seed whose sanitized text is empty yields no records.                   *)
(***************************************************************************)
\* the sanitized suggestions that are non-empty and not the seed, in arrival
\* order, without their later repeats
Eligible ==
    LET san == [i \in DOMAIN suggestions |-> rel_sanitized(suggestions[i])]
    IN  FirstSeen(SelectSeq(san, LAMBDA t : t # <<>> /\ ~_ieq(t, seed_sanitized)))

FirstN(seq, n) == IF n <= 0 THEN <<>> ELSE IF n >= Len(seq) THEN seq ELSE Take(seq, n)

RelatedOf(rows) == [i \in DOMAIN rows |-> rows[i].related_sanitized]

C19_ExpansionSelection ==
    exPc = "returned" =>
        /\ Len(out_rows) <= max_each
        /\ RelatedOf(out_rows) = FirstN(Eligible, max_each)
        /\ seed_sanitized = <<>> => out_rows = <<>>

(***************************************************************************)
(* C20 (rank contiguity and uniqueness): within the records of one seed    *)
(* the ranks are exactly 1..k in the order the suggestions arrived, no two *)
(* records share (seed_index, related_sanitized), and of the suggestions   *)
(* that sanitize to the same text only the first one is kept, with the     *)
(* rank slot.                                                              *)
(***************************************************************************)
\* the position in the suggestion list of the suggestion a record was made of
ArrivalOf(r) ==
    LET hit == {p \in DOMAIN suggestions : suggestions[p] = r.related_original}
    IN  IF hit = {} THEN 0 ELSE CHOOSE p \in hit : \A q \in hit : p <= q

C20_RankContiguity ==
    exPc \in {"loop", "returned"} =>
        /\ \A i \in DOMAIN out_rows : out_rows[i].rank = i
        /\ \A i, j \in DOMAIN out_rows :
              /\ i < j => ArrivalOf(out_rows[i]) < ArrivalOf(out_rows[j])
              /\ (/\ out_rows[i].seed_index = out_rows[j].seed_index
                  /\ out_rows[i].related_sanitized = out_rows[j].related_sanitized) => i = j
        /\ \A i \in DOMAIN out_rows :
              /\ ArrivalOf(out_rows[i]) \in DOMAIN suggestions
              /\ out_rows[i].related_sanitized = rel_sanitized(out_rows[i].related_original)
              /\ \A p \in 1..(ArrivalOf(out_rows[i]) - 1) :
                    rel_sanitized(suggestions[p]) # out_rows[i].related_sanitized

(***************************************************************************)
(* Claims about expand_all and fetch_naver_suggest.                        *)
(***************************************************************************)
\* the positions of the seeds that are not empty, in row order
FetchedSeeds == SelectSeq([i \in DOMAIN df_sanitized |-> i],
                          LAMBDA i : df_sanitized[i] # <<>>)

\* the rows of the first k fetched seeds, made of what was fetched for them
RECURSIVE RowsUpTo(_)
RowsUpTo(k) ==
    IF k = 0 THEN <<>>
    ELSE RowsUpTo(k - 1)
         \o ExpandLoop(fetched[k], attemptLog[k].seed - 1,
                       df_sanitized[attemptLog[k].seed], MaxEach, <<>>)

\* nothing is raised; a seed whose attempts all failed has the empty list;
\* at the end every non-empty seed has been fetched for, in row order, and
\* the collected rows are the rows of all of them
NonFatal ==
    /\ eaPc # "raised"
    /\ Len(fetched) = Len(attemptLog)
    /\ \A i \in DOMAIN attemptLog : attemptLog[i].failed => fetched[i] = <<>>
    /\ Range(warnings) \subseteq {attemptLog[i].seed : i \in DOMAIN attemptLog}
    /\ eaPc = "done" =>
          /\ [i \in DOMAIN attemptLog |-> attemptLog[i].seed] = FetchedSeeds
          /\ all_rows = RowsUpTo(Len(attemptLog))

(***************************************************************************)
(* C21 (non-fatal suggestion failure), as stated: if every attempt for a   *)
(* seed fails, fetch_naver_suggest returns an empty list after at most the *)
(* configured number of attempts without raising, and expand_all goes on   *)
(* to expand every later seed.                                             *)
(***************************************************************************)
C21_Original ==
    /\ NonFatal
    /\ \A i \in DOMAIN attemptLog : attemptLog[i].n <= retries

(***************************************************************************)
(* C21, amended: the number of attempts is at most the configured number,  *)
(* and one when the configured number is below one.                        *)
(***************************************************************************)
C21_NonFatalFailure ==
    /\ NonFatal
    /\ \A i \in DOMAIN attemptLog :
          /\ attemptLog[i].n >= 1
          /\ retries >= 1 => attemptLog[i].n <= retries
          /\ retries < 1 => attemptLog[i].n = 1
    /\ eaPc = "attempt" => attempts <= (IF retries < 1 THEN 1 ELSE retries)

\* a finished run where every attempt of the first seed failed, more than
\* once, and a later seed was expanded into rows
C21_Witness ==
    /\ eaPc = "done"
    /\ Len(attemptLog) >= 2
    /\ attemptLog[1].failed
    /\ attemptLog[1].n >= 2
    /\ all_rows # <<>>

(***************************************************************************)
(* C22 (rate-limit floor): between any two successive HTTP requests sent   *)
(* to the suggestion service or to a competitor search endpoint a delay of *)
(* at least the configured inter-request sleep occurs, on every path:      *)
(* between retries, between the two site lookups of one keyword, and       *)
(* between one seed or keyword and the next.                               *)
(***************************************************************************)
\* the delay slept between positions i and j of a trace
RECURSIVE SleptBetween(_, _, _)
SleptBetween(tr, i, j) ==
    IF i + 1 >= j THEN 0 ELSE tr[i + 1].d + SleptBetween(tr, i + 1, j)

\* every two requests of the trace with no request between them are at
\* least floor apart
FloorKept(tr, floor) ==
    \A i, j \in DOMAIN tr :
        (/\ i < j
         /\ tr[i].e = "req"
         /\ tr[j].e = "req"
         /\ \A m \in (i + 1)..(j - 1) : tr[m].e # "req")
            => SleptBetween(tr, i, j) >= floor

C22_RateLimitFloor == FloorKept(cc_trace, cc_sleep)

(***************************************************************************)
(* C28 (bounded retries with growing backoff): for every external call the *)
(* number of attempts is bounded by the configured retry count, and the    *)
(* delay slept after a failed attempt is strictly larger than the delay    *)
(* slept after the previous failed attempt of the same call.               *)
(***************************************************************************)
\* the delays slept after the failed attempts of the trace, with their call
RetrySleeps(tr) == SelectSeq(tr, LAMBDA ev : ev.e = "retry")

BackoffGrows(tr) ==
    LET rs == RetrySleeps(tr)
    IN  \A i \in 1..(Len(rs) - 1) : rs[i].call = rs[i + 1].call => rs[i + 1].d > rs[i].d

C28_GrowingBackoff ==
    /\ \A i \in DOMAIN attemptLog : attemptLog[i].n <= (IF retries >= 1 THEN retries ELSE 1)
    /\ BackoffGrows(net_trace)

(***************************************************************************)
(* C23 (layered column inference): for any header list, the keyword (and   *)
(* seed) column chosen is the column matching the earliest entry of the    *)
(* prioritized candidate list when some column matches a candidate exactly *)
(* (case-insensitively); otherwise the first column in header order whose  *)
(* name contains one of the fuzzy terms; otherwise (keyword only) the      *)
(* best-scoring column that is not in the excluded set; a later layer is   *)
(* consulted only when every earlier layer found nothing, and the same     *)
(* headers and rows always give the same choice.                           *)
(***************************************************************************)
\* the positions of the candidates some column matches exactly
MatchedCands(cols, cands) ==
    {i \in DOMAIN cands : \E j \in DOMAIN cols : LowerName(cols[j]) = cands[i]}

\* the positions of the columns whose name contains a fuzzy term
FuzzyCols(cols, terms) ==
    {j \in DOMAIN cols : \E t \in Range(terms) : t \in SubTerms(LowerName(cols[j]))}

MinOfSet(S) == CHOOSE x \in S : \A y \in S : x <= y

\* the columns the heuristic may choose, and the score of one
Eligible3(tbl, blacklist, nanText) ==
    {j \in DOMAIN tbl.cols :
        /\ LowerName(tbl.cols[j]) \notin blacklist
        /\ \E i \in DOMAIN tbl.rows : ColumnValues(tbl, j, nanText)[i] # ""}

ScoreAt(tbl, j, nanText) ==
    HeuristicScore(ColumnValues(tbl, j, nanText),
                   SelectSeq(ColumnValues(tbl, j, nanText), LAMBDA v : v # ""), nanText)

\* col is the layered choice: exact, else fuzzy, else (when heur) best score
LayeredChoice(col, tbl, cands, terms, heur, blacklist, nanText) ==
    LET cols == tbl.cols
        mc == MatchedCands(cols, cands)
        fz == FuzzyCols(cols, terms)
        el == Eligible3(tbl, blacklist, nanText)
    IN  IF mc # {}
        THEN /\ col \in Range(cols)
             /\ LowerName(col) = cands[MinOfSet(mc)]
             /\ col = cols[MinOfSet({j \in DOMAIN cols : LowerName(cols[j]) = LowerName(col)})]
        ELSE IF fz # {} THEN col = cols[MinOfSet(fz)]
        ELSE IF heur /\ el # {}
             THEN \E j \in el :
                     /\ col = cols[j]
                     /\ \A k \in el : ~Less(ScoreAt(tbl, j, nanText), ScoreAt(tbl, k, nanText))
                     /\ \A k \in el : k < j => Less(ScoreAt(tbl, k, nanText), ScoreAt(tbl, j, nanText))
             ELSE col = None

TableOf(name) == IF name = "expanded" THEN expandedTbl ELSE sanitizedTbl

C23_LayeredInference ==
    /\ (colPc \in {"scored", "fetched"} /\ sc_base.status = "ok") =>
          /\ LayeredChoice(sc_base.kw_col, TableOf(sc_base.src), ScStrong, ScFuzzy,
                           TRUE, ScBlacklist, TRUE)
          /\ LayeredChoice(sc_base.seed_col, TableOf(sc_base.src), ScSeedCands, SeedFuzzy,
                           FALSE, {}, TRUE)
    /\ (colPc = "fetched" /\ ft_input.status = "ok") =>
          /\ LayeredChoice(ft_input.kw_col, TableOf(ft_input.src), FtStrong, FtFuzzy,
                           TRUE, FtBlacklist, FALSE)
          /\ LayeredChoice(ft_input.seed_col, TableOf(ft_input.src), FtSeedCands, SeedFuzzy,
                           FALSE, {}, FALSE)
    /\ colPc = "fetched" =>
          /\ sc_base = _load_base(expandedTbl, sanitizedTbl)
          /\ ft_input = InputSource(expandedTbl, sanitizedTbl)

\* a table whose first column matches only a fuzzy term and whose later
\* column matches a candidate exactly: the later column is chosen
C23_Witness ==
    /\ colPc = "fetched"
    /\ sc_base.status = "ok"
    /\ sc_base.src = "expanded"
    /\ Len(expandedTbl.cols) >= 2
    /\ LowerName(expandedTbl.cols[1]) \notin Range(ScStrong)
    /\ MatchedCands(expandedTbl.cols, ScStrong) # {}
    /\ FuzzyCols(expandedTbl.cols, ScFuzzy) # {}
    /\ MinOfSet(FuzzyCols(expandedTbl.cols, ScFuzzy)) = 1
    /\ sc_base.kw_col # expandedTbl.cols[1]
    /\ ft_input.kw_col = sc_base.kw_col

(***************************************************************************)
(* C24 (fatal only without a keyword column): the score computation and    *)
(* the aggregator stop with a fatal error exactly when no keyword column   *)
(* can be found in any available base table (expanded first, then          *)
(* sanitized); the score computation's message lists the columns of each   *)
(* inspected source; a missing seed column never stops the run.            *)
(***************************************************************************)
\* a keyword column can be found in the table, by the layers of each tool
ScHasKeyword(tbl) ==
    tbl.exists /\ ~LayeredChoice(None, tbl, ScStrong, ScFuzzy, TRUE, ScBlacklist, TRUE)

FtHasKeyword(tbl) ==
    tbl.exists /\ ~LayeredChoice(None, tbl, FtStrong, FtFuzzy, TRUE, FtBlacklist, FALSE)

\* the sources that exist, in the order they are inspected, with their columns
Inspected ==
    (IF expandedTbl.exists THEN << <<"expanded", expandedTbl.cols>> >> ELSE <<>>)
    \o (IF sanitizedTbl.exists THEN << <<"sanitized", sanitizedTbl.cols>> >> ELSE <<>>)

C24_ScorerFatal ==
    colPc \in {"scored", "fetched"} =>
        /\ sc_base.status = "fatal" <=> (~ScHasKeyword(expandedTbl) /\ ~ScHasKeyword(sanitizedTbl))
        /\ sc_base.status = "fatal" => sc_base.tried = Inspected
        /\ sc_base.status = "ok" =>
              sc_base.src = (IF ScHasKeyword(expandedTbl) THEN "expanded" ELSE "sanitized")

C24_FetchFatal ==
    colPc = "fetched" =>
        /\ ft_input.status = "fatal" <=> (~FtHasKeyword(expandedTbl) /\ ~FtHasKeyword(sanitizedTbl))
        /\ ft_input.status = "ok" =>
              ft_input.src = (IF FtHasKeyword(expandedTbl) THEN "expanded" ELSE "sanitized")

C24_FatalOnlyWithoutKeyword == C24_ScorerFatal /\ C24_FetchFatal

(***************************************************************************)
(* C30 (stage compatibility of column inference): when the base table has  *)
(* exactly the columns the expansion stage writes, the keyword column      *)
(* resolved by the score computation and by the aggregator is a            *)
(* related-keyword column (related_sanitized or related_original), never   *)
(* the source tag, the rank or a seed column, and both tools resolve the   *)
(* same keyword and seed columns.                                          *)
(***************************************************************************)
RelatedColumns == {"related_sanitized", "related_original"}

C30_StageCompatible ==
    (colPc = "fetched" /\ expandedTbl.exists /\ expandedTbl.cols = ExpandedColumns) =>
        /\ sc_base.status = "ok" /\ sc_base.src = "expanded"
        /\ ft_input.status = "ok" /\ ft_input.src = "expanded"
        /\ sc_base.kw_col \in RelatedColumns
        /\ ft_input.kw_col \in RelatedColumns
        /\ sc_base.kw_col = ft_input.kw_col
        /\ sc_base.seed_col = ft_input.seed_col

(***************************************************************************)
(* Claims about the seed canonicalization.                                 *)
(***************************************************************************)
\* the text of an integer-valued decimal: blanks, an optional minus sign,
\* digits, optionally a point and zeros, blanks
SeedBody(s) == LET t == Strip(s) IN IF t # <<>> /\ t[1] = "-" THEN Tail(t) ELSE t

IsIntegerDecimal(s) ==
    /\ SeedBody(s) # <<>>
    /\ IsDigit(SeedBody(s)[1])
    /\ _float_like(SeedBody(s))

\* the plain integer string of such a text
PlainInteger(s) ==
    LET v == IntOfFloat(SeedBody(s))
    IN  IF Strip(s)[1] = "-" THEN <<"-">> \o IntStr(v) ELSE IntStr(v)

\* C25: a seed whose text is an integer-valued decimal is mapped to the plain
\* integer string (so two renderings of one integer give one seed); any other
\* seed is returned trimmed and unchanged; mapping twice gives the same as
\* once; and verify_dtypes never counts the output as non-canonical.
C25_SeedCanonical ==
    cnPc = "verified" =>
        /\ IsIntegerDecimal(seed_raw) => seed_once = PlainInteger(seed_raw)
        /\ ~IsIntegerDecimal(seed_raw) => seed_once = Strip(seed_raw)
        /\ seed_twice = seed_once
        /\ ~seed_flag

(***************************************************************************)
(* Claims about the Scorer.                                                *)
(***************************************************************************)
\* the weight pair of the config sheet, before it is renormalised: the two
\* cells found, or the default pair when one is not found
ResolvedPair ==
    LET found == IF config.sheet.kvHeader
                 THEN KvWalk(config.sheet.kv, [w_int |-> NoVal, w_cmp |-> NoVal])
                 ELSE [w_int |-> NoVal, w_cmp |-> NoVal]
    IN  IF found.w_int.k = "none" \/ found.w_cmp.k = "none"
        THEN <<DEFAULT_WEIGHTS.W_intent, DEFAULT_WEIGHTS.W_competition>>
        ELSE <<found.w_int, found.w_cmp>>

ResolvesWithPositiveSum ==
    LET sm == Add(ResolvedPair[1], ResolvedPair[2])
    IN  IsFinite(sm) /\ ~LeZero(sm)

\* the configured tokens of a token block: the rows that are enabled and
\* have a weight above 0, as a mapping from the token to its weight
ConfiguredRows(sh) ==
    IF ~sh.header THEN {}
    ELSE {r \in Range(sh.rows) : ReadRowKept(sh, r) /\ ~LeZero(r.w)}

ConfiguredTokens(sh) == {r.tok : r \in ConfiguredRows(sh)}

WeightOfToken(sh, t) == (CHOOSE r \in ConfiguredRows(sh) : r.tok = t).w

RECURSIVE SumOfWeights(_, _)
SumOfWeights(sh, toks) ==
    IF toks = {} THEN Fin(0)
    ELSE LET t == CHOOSE t \in toks : TRUE
         IN  Add(WeightOfToken(sh, t), SumOfWeights(sh, toks \ {t}))

ExpectedProxy(txt, sh) ==
    SumOfWeights(sh, {t \in ConfiguredTokens(sh) : TextContains(txt, t)})

\* C27: the intent proxy of a row is the sum of the weights of the configured
\* tokens that occur, without regard to case, in the sanitized keyword, each
\* token counted once; it is 0 when no token is configured.
C27_IntentProxy ==
    scPc = "emitted" =>
        \A i \in DOMAIN merged_df :
            merged_df[i].intent_proxy = ExpectedProxy(merged_df[i].keyword_sanitized, config.toks)

\* what _minmax is said to give for the column col: norm
Column(df, name) == [i \in DOMAIN df |-> df[i][name]]

AllEqual(col) == \A i, j \in Valid(col) : col[i] = col[j]

MinMaxScaled(col, norm) ==
    /\ \A i \in DOMAIN norm :
           norm[i].k = "fin" /\ Leq(Fin(0), norm[i]) /\ Leq(norm[i], Fin(1))
    /\ IF Valid(col) = {} \/ AllEqual(col)
       THEN \A i \in DOMAIN norm : norm[i] = Fin(0)
       ELSE \A i \in DOMAIN norm :
                /\ col[i] = MinOf(col) => norm[i] = Fin(0)
                /\ col[i] = MaxOf(col) => norm[i] = Fin(1)

\* C26: _minmax gives every row of a column a value in [0,1], 0 to the
\* minimum and 1 to the maximum, and 0 to every row when all values are
\* equal or no value is a valid number; it never gives NaN.
C26_MinMax ==
    scPc = "emitted" =>
        /\ MinMaxScaled(Column(merged_df, "intent_proxy"), Column(merged_df, "intent_norm"))
        /\ MinMaxScaled(Column(merged_df, "comp_combined"),
                        Column(merged_df, "competition_norm"))

\* the smallest value of a column has the norm 0 and the largest the norm 1
Spans(col, norm) ==
    (\E i, j \in DOMAIN col : col[i] # col[j]) =>
        \A i \in DOMAIN col :
            /\ col[i] = MinOf(col) => norm[i] = Fin(0)
            /\ col[i] = MaxOf(col) => norm[i] = Fin(1)

\* C29: in the emitted table the two norms are the min-max scaling over the
\* emitted rows: when the emitted rows hold two different comp_combined
\* values, the row with the smallest has competition_norm 0 and the row with
\* the largest has competition_norm 1, and likewise for intent_proxy and
\* intent_norm, also when duplicate (seed, keyword) rows were dropped.
C29_NormSpansEmitted ==
    scPc = "emitted" =>
        /\ Spans(Column(out_df, "comp_combined"), Column(out_df, "competition_norm"))
        /\ Spans(Column(out_df, "intent_proxy"), Column(out_df, "intent_norm"))

\* C5 (score bound): when the weight pair of the config sheet resolves with
\* a positive sum, every row compute_scores emits has 0 <= score <= 100.
C5_ScoreBound ==
    (scPc = "emitted" /\ ResolvesWithPositiveSum) =>
        \A i \in DOMAIN out_df :
            Leq(Fin(0), out_df[i].score) /\ Leq(out_df[i].score, Fin(100))

\* a cell holds a number that is not NaN
NotMissing(x) == x.k \in {"fin", "inf"}

\* C6 (no missing value in the score table): every row compute_scores emits
\* has a numeric, non-NaN comp_combined, intent_norm, competition_norm and
\* score.
C6_NoMissingValue ==
    scPc = "emitted" =>
        \A i \in DOMAIN out_df :
            /\ NotMissing(out_df[i].comp_combined)
            /\ NotMissing(out_df[i].intent_norm)
            /\ NotMissing(out_df[i].competition_norm)
            /\ NotMissing(out_df[i].score)

\* the first row of the merged table that has the key of row r
FirstWithKey(r) ==
    merged_df[CHOOSE i \in DOMAIN merged_df :
                 /\ KeyOf(merged_df[i]) = KeyOf(r)
                 /\ \A j \in DOMAIN merged_df :
                       KeyOf(merged_df[j]) = KeyOf(r) => i <= j]

\* C7 (output key uniqueness): no two rows of the emitted table share a
\* (seed, keyword) pair, every pair of the merged table is emitted, and the
\* row emitted for a pair is its first occurrence in base-table order.
C7_KeyUniqueKeepFirst ==
    scPc = "emitted" =>
        /\ \A i, j \in DOMAIN out_df : i # j => KeyOf(out_df[i]) # KeyOf(out_df[j])
        /\ {KeyOf(out_df[i]) : i \in DOMAIN out_df}
              = {KeyOf(merged_df[i]) : i \in DOMAIN merged_df}
        /\ \A i \in DOMAIN out_df : out_df[i] = FirstWithKey(out_df[i])

\* a run in which a pair occurs twice with different competition values, so
\* that which occurrence is kept shows in the output
C7_Witness ==
    /\ scPc = "emitted"
    /\ Len(out_df) < Len(merged_df)
    /\ \E i, j \in DOMAIN merged_df :
          /\ i < j
          /\ KeyOf(merged_df[i]) = KeyOf(merged_df[j])
          /\ merged_df[i] # merged_df[j]
    /\ \E i, j \in DOMAIN out_df : out_df[i].seed # out_df[j].seed

(***************************************************************************)
(* Specifications: one per component, the other components idle.           *)
(***************************************************************************)
SanSpecInit == SanInit /\ WgtIdle /\ TokIdle /\ FetchIdle /\ ScoreIdle /\ LexIdle /\ ExpIdle /\ AllIdle /\ CcIdle /\ ColIdle /\ CanIdle

SanSpec == SanSpecInit /\ [][SanNext]_vars

WgtSpecInit == WgtInit /\ SanIdle /\ TokIdle /\ FetchIdle /\ ScoreIdle /\ LexIdle /\ ExpIdle /\ AllIdle /\ CcIdle /\ ColIdle /\ CanIdle

WgtSpec == WgtSpecInit /\ [][WgtNext]_vars

TokSpecInit == TokInit /\ SanIdle /\ WgtIdle /\ FetchIdle /\ ScoreIdle /\ LexIdle /\ ExpIdle /\ AllIdle /\ CcIdle /\ ColIdle /\ CanIdle

TokSpec == TokSpecInit /\ [][TokNext]_vars

FetchSpecInit == FetchInit /\ SanIdle /\ WgtIdle /\ TokIdle /\ ScoreIdle /\ LexIdle /\ ExpIdle /\ AllIdle /\ CcIdle /\ ColIdle /\ CanIdle

FetchSpec == FetchSpecInit /\ [][FetchNext]_vars

ScoreSpecInit == ScoreInit /\ SanIdle /\ WgtIdle /\ TokIdle /\ FetchIdle /\ LexIdle /\ ExpIdle /\ AllIdle /\ CcIdle /\ ColIdle /\ CanIdle

ScoreSpec == ScoreSpecInit /\ [][ScoreNext]_vars

FetchRunSpecInit ==
    FetchLastRunInit /\ SanIdle /\ WgtIdle /\ TokIdle /\ ScoreIdle /\ LexIdle /\ ExpIdle /\ AllIdle /\ CcIdle /\ ColIdle /\ CanIdle

FetchRunSpec == FetchRunSpecInit /\ [][FetchNext]_vars

LexSpecInit == LexInit /\ SanIdle /\ WgtIdle /\ TokIdle /\ FetchIdle /\ ScoreIdle /\ ExpIdle /\ AllIdle /\ CcIdle /\ ColIdle /\ CanIdle

LexSpec == LexSpecInit /\ [][LexNext]_vars

\* one call of expand_for_seed
ExpSpecInit ==
    ExpInit /\ SanIdle /\ WgtIdle /\ TokIdle /\ FetchIdle /\ ScoreIdle /\ LexIdle /\ AllIdle /\ CcIdle /\ ColIdle /\ CanIdle

ExpSpec == ExpSpecInit /\ [][ExpNext]_vars

\* one run of expand_all
AllSpecInit ==
    AllInit /\ SanIdle /\ WgtIdle /\ TokIdle /\ FetchIdle /\ ScoreIdle /\ LexIdle /\ ExpIdle /\ CcIdle /\ ColIdle /\ CanIdle

AllSpec == AllSpecInit /\ [][AllNext]_vars

\* one run of collect_competition
CcSpecInit ==
    CcInit /\ SanIdle /\ WgtIdle /\ TokIdle /\ FetchIdle /\ ScoreIdle /\ LexIdle /\ ExpIdle /\ AllIdle /\ ColIdle /\ CanIdle

CcSpec == CcSpecInit /\ [][CcNext]_vars

\* the column inference of both tools on the same pair of base tables
ColSpecInit ==
    ColInit /\ SanIdle /\ WgtIdle /\ TokIdle /\ FetchIdle /\ ScoreIdle /\ LexIdle /\ ExpIdle /\ AllIdle /\ CcIdle /\ CanIdle

ColSpec == ColSpecInit /\ [][ColNext]_vars

CanSpecInit ==
    CanInit /\ SanIdle /\ WgtIdle /\ TokIdle /\ FetchIdle /\ ScoreIdle /\ LexIdle /\ ExpIdle /\ AllIdle /\ CcIdle /\ ColIdle

CanSpec == CanSpecInit /\ [][CanNext]_vars

====
